---- MODULE Spec2Model ----
(***************************************************************************)
(* QGL admissibility engine: the parser's program construction, the        *)
(* admissibility validator (check_structure) and the inversion engine      *)
(* (invert), modelled over a heap of program objects so that aliasing      *)
(* between the caller's program, the transformed copy and the engines'     *)
(* logs is visible.                                                        *)
(*                                                                         *)
(* Strings built by f-strings are modelled as the sequence of their        *)
(* fragments; a state-space label is modelled as the sequence of parts     *)
(* that str.split('⊕') yields for it (one part: a plain label).            *)
(***************************************************************************)
EXTENDS Integers, Sequences, FiniteSets, TLC

\* ------------------------------------------------------------------ bounds
MaxBoundaries == 3      \* containers in a program given to the validator
MaxHeld == 2            \* containers in a program given to the inversion engine
MaxMembers == 2         \* member entries over all containers of a program
MaxObjs == 3            \* program objects alive on the heap
MaxLedger == 4          \* entries of the admissibility ledger
MaxDecls == 2           \* declarations (whole or cut short) in a parsed source
MaxCode == 4            \* atoms of a source text given to the lexer
MaxWorkers == 2         \* worker threads a daemon creates
MaxCalls == 2           \* calls a thread makes on the daemon

ContainerNames == {"A", "B"}
MemberNames == {"A", "B", "d", "q"}
TargetNames == {"A", "B", "d", "Z"}

Range(s) == {s[i] : i \in DOMAIN s}

Max(S) == CHOOSE x \in S : \A y \in S : y <= x

RECURSIVE Flatten(_)
Flatten(ss) == IF ss = <<>> THEN <<>> ELSE Head(ss) \o Flatten(Tail(ss))

\* ------------------------------------------------------- the data model
\* a container constructed without the check of __post_init__
Boundary_unchecked(name, content) ==
    [raise |-> "", name |-> name, content |-> content]

Boundary(name, content) ==
    IF name \in Range(content)
    THEN [raise |-> "ValueError", name |-> name, content |-> content]
    ELSE [raise |-> "", name |-> name, content |-> content]

MkBoundary(name, content) == [name |-> name, content |-> content]

Domain(name, states) == [name |-> name, states |-> states]

Qubit(name, state_a, state_b) ==
    [name |-> name, state_a |-> state_a, state_b |-> state_b, resolved |-> FALSE]

QGLProgram(boundaries, domains, qubits) ==
    [boundaries |-> boundaries, domains |-> domains, qubits |-> qubits]

NoProgram == [boundaries |-> <<>>, domains |-> <<>>, qubits |-> <<>>, free |-> TRUE]

\* ---------------------------------------------------------------- parser
\* a token is the lexer's pair (token_type, token_value)
Tok(type, value) == <<type, value>>

EOF == Tok("EOF", "")

\* self.current_token once self.position = pos (advance, parser.py:189-195)
current_token(tokens, pos) == IF pos < Len(tokens) THEN tokens[pos + 1] ELSE EOF

Raised(exc, msg, pos) == [raise |-> exc, msg |-> msg, pos |-> pos]

\* the content loop of parse_boundary, parser.py:92-100
RECURSIVE BoundaryContent(_, _, _)
BoundaryContent(tokens, pos, content) ==
    LET t == current_token(tokens, pos)
    IN  IF t[1] = "RBRACE" THEN [raise |-> "", pos |-> pos, content |-> content]
        ELSE IF t[1] = "IDENTIFIER"
        THEN BoundaryContent(tokens, pos + 1, Append(content, t[2]))
        ELSE IF t[1] = "COMMA"
        THEN BoundaryContent(tokens, pos + 1, content)
        ELSE Raised("SyntaxError", "Expected identifier or '}' in boundary content", pos)

\* parse_boundary with self.position = pos at the 'boundary' keyword
parse_boundary(tokens, pos) ==
    IF current_token(tokens, pos + 1)[1] # "IDENTIFIER"
    THEN Raised("SyntaxError", "Expected boundary name", pos + 1)
    ELSE IF current_token(tokens, pos + 2)[1] # "LBRACE"
    THEN Raised("SyntaxError", "Expected '{' after boundary name", pos + 2)
    ELSE LET name == current_token(tokens, pos + 1)[2]
             c == BoundaryContent(tokens, pos + 3, <<>>)
         IN  IF c.raise # "" THEN c
             ELSE LET b == Boundary(name, c.content)
                  IN  IF b.raise # ""
                      THEN Raised(b.raise, "STRUCTURAL VIOLATION: cannot contain itself",
                                  c.pos + 1)
                      ELSE [raise |-> "", pos |-> c.pos + 1,
                            value |-> MkBoundary(b.name, b.content)]

\* the states loop of parse_domain, parser.py:121-140
RECURSIVE DomainStatesLoop(_, _, _)
DomainStatesLoop(tokens, pos, states) ==
    LET t == current_token(tokens, pos)
    IN  IF t[1] = "RBRACE" THEN [raise |-> "", pos |-> pos, states |-> states]
        ELSE IF t[1] = "IDENTIFIER"
        THEN IF current_token(tokens, pos + 1)[1] = "PLUS"
             THEN IF current_token(tokens, pos + 2)[1] # "IDENTIFIER"
                  THEN Raised("SyntaxError", "Expected second state after (+)", pos + 2)
                  ELSE DomainStatesLoop(tokens, pos + 3,
                           Append(states, <<t[2], current_token(tokens, pos + 2)[2]>>))
             ELSE DomainStatesLoop(tokens, pos + 1, Append(states, <<t[2]>>))
        ELSE IF t[1] = "COMMA"
        THEN DomainStatesLoop(tokens, pos + 1, states)
        ELSE Raised("SyntaxError", "Unexpected token in domain", pos)

parse_domain(tokens, pos) ==
    IF current_token(tokens, pos + 1)[1] # "IDENTIFIER"
    THEN Raised("SyntaxError", "Expected domain name", pos + 1)
    ELSE IF current_token(tokens, pos + 2)[1] # "LBRACE"
    THEN Raised("SyntaxError", "Expected '{' after domain name", pos + 2)
    ELSE LET c == DomainStatesLoop(tokens, pos + 3, <<>>)
         IN  IF c.raise # "" THEN c
             ELSE [raise |-> "", pos |-> c.pos + 1,
                   value |-> Domain(current_token(tokens, pos + 1)[2], c.states)]

\* the choice-point is built and the position is put back where it was
parse_qubit_rewinds(tokens, pos) ==
    IF current_token(tokens, pos + 1)[1] # "IDENTIFIER"
    THEN Raised("SyntaxError", "Expected qubit name", pos + 1)
    ELSE IF current_token(tokens, pos + 2)[1] # "EQUALS"
    THEN Raised("SyntaxError", "Expected '=' after qubit name", pos + 2)
    ELSE IF current_token(tokens, pos + 3)[1] # "LBRACE"
    THEN Raised("SyntaxError", "Expected '{' after '='", pos + 3)
    ELSE IF current_token(tokens, pos + 4)[1] # "IDENTIFIER"
    THEN Raised("SyntaxError", "Expected first state in qubit", pos + 4)
    ELSE IF current_token(tokens, pos + 5)[1] # "PLUS"
    THEN Raised("SyntaxError", "Expected '(+)' between qubit states", pos + 5)
    ELSE IF current_token(tokens, pos + 6)[1] # "IDENTIFIER"
    THEN Raised("SyntaxError", "Expected second state in qubit", pos + 6)
    ELSE IF current_token(tokens, pos + 7)[1] # "RBRACE"
    THEN Raised("SyntaxError", "Expected '}' after qubit states", pos + 7)
    ELSE [raise |-> "", pos |-> pos,
          value |-> Qubit(current_token(tokens, pos + 1)[2],
                          current_token(tokens, pos + 4)[2],
                          current_token(tokens, pos + 6)[2])]

\* parse_qubit with self.position = pos at the 'qubit' keyword
parse_qubit(tokens, pos) ==
    IF current_token(tokens, pos + 1)[1] # "IDENTIFIER"
    THEN Raised("SyntaxError", "Expected qubit name", pos + 1)
    ELSE IF current_token(tokens, pos + 2)[1] # "EQUALS"
    THEN Raised("SyntaxError", "Expected '=' after qubit name", pos + 2)
    ELSE IF current_token(tokens, pos + 3)[1] # "LBRACE"
    THEN Raised("SyntaxError", "Expected '{' after '='", pos + 3)
    ELSE IF current_token(tokens, pos + 4)[1] # "IDENTIFIER"
    THEN Raised("SyntaxError", "Expected first state in qubit", pos + 4)
    ELSE IF current_token(tokens, pos + 5)[1] # "PLUS"
    THEN Raised("SyntaxError", "Expected '(+)' between qubit states", pos + 5)
    ELSE IF current_token(tokens, pos + 6)[1] # "IDENTIFIER"
    THEN Raised("SyntaxError", "Expected second state in qubit", pos + 6)
    ELSE IF current_token(tokens, pos + 7)[1] # "RBRACE"
    THEN Raised("SyntaxError", "Expected '}' after qubit states", pos + 7)
    ELSE [raise |-> "", pos |-> pos + 8,
          value |-> Qubit(current_token(tokens, pos + 1)[2],
                          current_token(tokens, pos + 4)[2],
                          current_token(tokens, pos + 6)[2])]

\* the dispatch loop of parse, parser.py:59-72
RECURSIVE ParseLoop(_, _, _)
ParseLoop(tokens, pos, program) ==
    IF ~ (pos < Len(tokens)) THEN [raise |-> "", pos |-> pos, value |-> program]
    ELSE LET token_type == current_token(tokens, pos)[1]
         IN  IF token_type = "BOUNDARY"
             THEN LET r == parse_boundary(tokens, pos)
                  IN  IF r.raise # "" THEN r
                      ELSE ParseLoop(tokens, r.pos,
                               [program EXCEPT !.boundaries = Append(@, r.value)])
             ELSE IF token_type = "DOMAIN"
             THEN LET r == parse_domain(tokens, pos)
                  IN  IF r.raise # "" THEN r
                      ELSE ParseLoop(tokens, r.pos,
                               [program EXCEPT !.domains = Append(@, r.value)])
             ELSE IF token_type = "QUBIT"
             THEN LET r == parse_qubit(tokens, pos)
                  IN  IF r.raise # "" THEN r
                      ELSE ParseLoop(tokens, r.pos,
                               [program EXCEPT !.qubits = Append(@, r.value)])
             ELSE ParseLoop(tokens, pos + 1, program)

parse(tokens) == ParseLoop(tokens, 0, QGLProgram(<<>>, <<>>, <<>>))

\* ----------------------------------------------------------------- lexer
\* A source text is a sequence of atoms.  An atom is a single character, or
\* a string of word characters (a keyword, a denylisted word, a name) that
\* the inputs never split; atoms next to each other are adjacent in the text,
\* so that "boundary" followed by "A" is the one word boundaryA.  Characters
\* outside ASCII are written (+) for the superposition marker, (in) for the
\* element-of sign, >> and << for the angle brackets of quantum notation.
FORBIDDEN_TOKENS ==
    {"for", "while", "repeat", "iterate", "loop",
     "time", "step", "clock", "tick", "second", "minute",
     "evolve", "simulate", "optimize", "minimize", "maximize",
     "search", "find", "compute", "calculate", "solve",
     "member", "contains", "in", "(in)"}

Keywords == {"boundary", "domain", "qubit"}

Digits == {"0", "1", "2", "3", "4", "5", "6", "7", "8", "9"}

\* atoms made of the characters [A-Za-z_] only
LetterAtoms ==
    Keywords \cup (FORBIDDEN_TOKENS \ {"(in)"}) \cup {"A", "B", "d", "q", "s", "t", "_"}

\* atoms made of word characters (\w)
WordAtoms == LetterAtoms \cup Digits

\* \s
Whitespace == {" ", "\t", "\n"}

\* the character class that follows | in the QUANTUM_STATE pattern
QuantumStart ==
    Digits \cup {"+", "-", "(up)", "(down)", "(alpha)", "(beta)", "(gamma)", "(phi)", "(psi)"}

\* the characters d of the patterns \|d\s*\> of _normalize_quantum_notation
KetNames == {"0", "1", "+", "-", "(up)", "(down)", "(psi)", "(phi)", "(alpha)", "(beta)"}

IsWordAt(code, i) == i \in DOMAIN code /\ code[i] \in WordAtoms

\* \b between the atoms at i and i + 1
WordBoundary(code, i) == IsWordAt(code, i) # IsWordAt(code, i + 1)

RECURSIVE Concat(_)
Concat(atoms) == IF atoms = <<>> THEN "" ELSE Head(atoms) \o Concat(Tail(atoms))

\* the end of a match of \s* that starts at i: the first index not in \s
RECURSIVE SkipWhitespace(_, _)
SkipWhitespace(code, i) ==
    IF i \in DOMAIN code /\ code[i] \in Whitespace
    THEN SkipWhitespace(code, i + 1) ELSE i

\* re.sub of the patterns \|d\s*\> of _normalize_quantum_notation
RECURSIVE NormalizeKet(_, _)
NormalizeKet(code, i) ==
    IF i > Len(code) THEN <<>>
    ELSE IF /\ code[i] = "|"
            /\ i + 1 <= Len(code)
            /\ code[i + 1] \in KetNames
            /\ SkipWhitespace(code, i + 2) \in DOMAIN code
            /\ code[SkipWhitespace(code, i + 2)] = ">"
    THEN <<"|", code[i + 1], ">>">> \o NormalizeKet(code, SkipWhitespace(code, i + 2) + 1)
    ELSE <<code[i]>> \o NormalizeKet(code, i + 1)

\* re.sub of the patterns \|\s*d\s*\>> that clean up spaces
RECURSIVE NormalizeSpaces(_, _)
NormalizeSpaces(code, i) ==
    IF i > Len(code) THEN <<>>
    ELSE LET j == SkipWhitespace(code, i + 1)
             k == SkipWhitespace(code, j + 1)
         IN  IF /\ code[i] = "|"
                /\ j \in DOMAIN code /\ code[j] \in {"0", "1", "+", "-"}
                /\ k \in DOMAIN code /\ code[k] = ">>"
             THEN <<"|", code[j], ">>">> \o NormalizeSpaces(code, k + 1)
             ELSE <<code[i]>> \o NormalizeSpaces(code, i + 1)

_normalize_quantum_notation(code) == NormalizeSpaces(NormalizeKet(code, 1), 1)

\* whitespace stays in the value of a quantum literal
_normalize_quantum_state_keeps_spaces(state) ==
    IF state[Len(state)] = ">>" THEN state
    ELSE IF state[Len(state)] = ">" THEN SubSeq(state, 1, Len(state) - 1) \o <<">>">>
    ELSE state \o <<">>">>

\* state is the match of QUANTUM_STATE, so it starts with |
_normalize_quantum_state(state) ==
    LET st == SelectSeq(state, LAMBDA c : c \notin Whitespace)
    IN  IF st[Len(st)] = ">>" THEN st
        ELSE IF st[Len(st)] = ">" THEN SubSeq(st, 1, Len(st) - 1) \o <<">>">>
        ELSE st \o <<">>">>

\* lines 53-59: every line is cut at its first //
RECURSIVE StripComments(_, _, _)
StripComments(code, i, in_comment) ==
    IF i > Len(code) THEN <<>>
    ELSE IF code[i] = "\n" THEN <<"\n">> \o StripComments(code, i + 1, FALSE)
    ELSE IF in_comment THEN StripComments(code, i + 1, TRUE)
    ELSE IF code[i] = "/" /\ i + 1 <= Len(code) /\ code[i + 1] = "/"
    THEN StripComments(code, i + 1, TRUE)
    ELSE <<code[i]>> \o StripComments(code, i + 1, FALSE)

\* the denylisted words that re.search(r'\b' + word + r'\b', clean_code) finds
ForbiddenFound(clean_code) ==
    {forbidden \in FORBIDDEN_TOKENS :
        \E i \in DOMAIN clean_code :
            /\ clean_code[i] = forbidden
            /\ WordBoundary(clean_code, i - 1)
            /\ WordBoundary(clean_code, i)}

\* the end (exclusive) of a greedy match of a character class from i on
RECURSIVE RunEnd(_, _, _)
RunEnd(code, i, class) ==
    IF i \in DOMAIN code /\ code[i] \in class THEN RunEnd(code, i + 1, class) ELSE i

\* the end (exclusive) of [^|]* and of .* from i on
RECURSIVE RunUntil(_, _, _)
RunUntil(code, i, stop) ==
    IF i \in DOMAIN code /\ code[i] # stop THEN RunUntil(code, i + 1, stop) ELSE i

Punctuation ==
    [c \in {"{", "}", "[", "]", "=", "(+)", ",", "|", "<<", ">>", ">", "<"} |->
        CASE c = "{" -> "LBRACE"
          [] c = "}" -> "RBRACE"
          [] c = "[" -> "LBRACKET"
          [] c = "]" -> "RBRACKET"
          [] c = "=" -> "EQUALS"
          [] c = "(+)" -> "PLUS"
          [] c = "," -> "COMMA"
          [] c = "|" -> "PIPE"
          [] OTHER -> "ANGLE_BRACKET"]

\* the first of TOKEN_PATTERNS that matches at index i (1-based), with the
\* end (exclusive) of its match; type "" when none matches
MatchAt(code, i) ==
    IF code[i] = "|" /\ i + 1 <= Len(code) /\ code[i + 1] \in QuantumStart
    THEN [type |-> "QUANTUM_STATE", end |-> RunUntil(code, i + 2, "|")]
    ELSE IF code[i] \in Keywords /\ ~ IsWordAt(code, i + 1)
    THEN [type |-> CASE code[i] = "boundary" -> "BOUNDARY"
                     [] code[i] = "domain" -> "DOMAIN"
                     [] OTHER -> "QUBIT",
          end |-> i + 1]
    ELSE IF code[i] \in LetterAtoms
    THEN [type |-> "IDENTIFIER", end |-> RunEnd(code, i + 1, WordAtoms)]
    ELSE IF code[i] \in DOMAIN Punctuation
    THEN [type |-> Punctuation[code[i]], end |-> i + 1]
    ELSE IF code[i] \in Whitespace
    THEN [type |-> "WHITESPACE", end |-> RunEnd(code, i + 1, Whitespace)]
    ELSE IF code[i] = "/" /\ i + 1 <= Len(code) /\ code[i + 1] = "/"
    THEN [type |-> "COMMENT", end |-> RunUntil(code, i + 2, "\n")]
    ELSE [type |-> "", end |-> i]

\* the loop of lines 71-100 from self.position = i - 1 on: every match, the
\* whitespace and the comments too, with the place of its first atom
RECURSIVE Lexemes(_, _)
Lexemes(code, i) ==
    IF i > Len(code) THEN <<>>
    ELSE LET m == MatchAt(code, i)
         IN  IF m.type = "" THEN <<[type |-> "", at |-> i, value |-> code[i]]>>
             ELSE <<[type |-> m.type, at |-> i,
                     value |-> IF m.type = "QUANTUM_STATE"
                               THEN Concat(_normalize_quantum_state(SubSeq(code, i, m.end - 1)))
                               ELSE Concat(SubSeq(code, i, m.end - 1))]>>
                  \o Lexemes(code, m.end)

\* tokenize(code): the denylisted words found, if any (the SyntaxError names
\* one of them); else the invalid character, if any; else self.tokens
tokenize(code) ==
    LET norm == _normalize_quantum_notation(code)
        found == ForbiddenFound(StripComments(norm, 1, FALSE))
        lexemes == Lexemes(norm, 1)
        kept == SelectSeq(lexemes, LAMBDA l : l.type \notin {"WHITESPACE", "COMMENT"})
    IN  IF found # {}
        THEN [raise |-> "SyntaxError", msg |-> "FORBIDDEN SYNTAX", named |-> found,
              tokens |-> <<>>]
        ELSE IF lexemes # <<>> /\ lexemes[Len(lexemes)].type = ""
        THEN [raise |-> "SyntaxError", msg |-> "Invalid character",
              named |-> {lexemes[Len(lexemes)].value}, tokens |-> <<>>]
        ELSE [raise |-> "", msg |-> "", named |-> {},
              tokens |-> [k \in 1..Len(kept) |-> Tok(kept[k].type, kept[k].value)]]

\* ------------------------------------------------ sources given to tokenize
Alphabet == {"in", "A", " ", "\n", "/", "|", "0", "(in)"}

AtomStrings(max) == UNION {[1..k -> Alphabet] : k \in 0..max}

\* boundary A{B,d} // in
\* domain d { s(+)t }qubit q={s (+) t}
SampleDeclarations ==
    <<"boundary", " ", "A", "{", "B", ",", "d", ",", "q", "}", " ", "/", "/", " ", "in", "\n",
      "domain", " ", "d", " ", "{", " ", "s", "(+)", "t", " ", "}",
      "qubit", " ", "q", "=", "{", "s", " ", "(+)", " ", "t", "}">>

\* |0 > | 1 >>
SampleKets == <<"|", "0", " ", ">", " ", "|", " ", "1", " ", ">>">>

\* boundary A { A }
SampleSelfListing == <<"boundary", " ", "A", " ", "{", " ", "A", " ", "}">>

SampleSources == {SampleDeclarations, SampleKets, SampleSelfListing}

CodeInputs(max) == AtomStrings(max) \cup SampleSources

\* ------------------------------------------- token sequences given to parse
ParseNames == {"A", "B"}

RECURSIVE CommaList(_)
CommaList(names) ==
    IF names = <<>> THEN <<>>
    ELSE IF Len(names) = 1 THEN <<Tok("IDENTIFIER", names[1])>>
    ELSE <<Tok("IDENTIFIER", names[1]), Tok("COMMA", ",")>> \o CommaList(Tail(names))

BoundaryDecl(name, content) ==
    <<Tok("BOUNDARY", "boundary"), Tok("IDENTIFIER", name), Tok("LBRACE", "{")>>
    \o CommaList(content) \o <<Tok("RBRACE", "}")>>

DomainDecl ==
    <<Tok("DOMAIN", "domain"), Tok("IDENTIFIER", "d"), Tok("LBRACE", "{"),
      Tok("IDENTIFIER", "s"), Tok("PLUS", "(+)"), Tok("IDENTIFIER", "t"),
      Tok("RBRACE", "}")>>

QubitDecl ==
    <<Tok("QUBIT", "qubit"), Tok("IDENTIFIER", "q"), Tok("EQUALS", "="),
      Tok("LBRACE", "{"), Tok("IDENTIFIER", "s"), Tok("PLUS", "(+)"),
      Tok("IDENTIFIER", "t"), Tok("RBRACE", "}")>>

\* the member lists of the container declarations given to parse
DeclContents == {<<>>, <<"A">>, <<"B">>, <<"A", "B">>, <<"B", "A">>}

Decls ==
    {BoundaryDecl(n, c) : n \in ParseNames, c \in DeclContents}
    \cup {DomainDecl, QubitDecl}

\* a member list written with the given tokens between its braces
BoundaryDeclOf(name, between) ==
    <<Tok("BOUNDARY", "boundary"), Tok("IDENTIFIER", name), Tok("LBRACE", "{")>>
    \o between \o <<Tok("RBRACE", "}")>>

\* declarations whose commas are not where a list has them: members with no
\* comma between them, a leading, a trailing and a doubled comma
MalformedDecls ==
    {BoundaryDeclOf("A", <<Tok("IDENTIFIER", "B"), Tok("IDENTIFIER", "d")>>),
     BoundaryDeclOf("A", <<Tok("COMMA", ","), Tok("IDENTIFIER", "B")>>),
     BoundaryDeclOf("A", <<Tok("IDENTIFIER", "B"), Tok("COMMA", ",")>>),
     BoundaryDeclOf("A", <<Tok("IDENTIFIER", "B"), Tok("COMMA", ","), Tok("COMMA", ","),
                           Tok("IDENTIFIER", "d")>>),
     <<Tok("DOMAIN", "domain"), Tok("IDENTIFIER", "d"), Tok("LBRACE", "{"),
       Tok("IDENTIFIER", "s"), Tok("IDENTIFIER", "t"), Tok("RBRACE", "}")>>}

\* declarations whose labels are quantum-notation literals:
\* domain d { |0>> }  and  qubit q = { |0>> (+) |1>> }
QuantumDecls ==
    {<<Tok("DOMAIN", "domain"), Tok("IDENTIFIER", "d"), Tok("LBRACE", "{"),
       Tok("QUANTUM_STATE", "|0>>"), Tok("RBRACE", "}")>>,
     <<Tok("QUBIT", "qubit"), Tok("IDENTIFIER", "q"), Tok("EQUALS", "="),
       Tok("LBRACE", "{"), Tok("QUANTUM_STATE", "|0>>"), Tok("PLUS", "(+)"),
       Tok("QUANTUM_STATE", "|1>>"), Tok("RBRACE", "}")>>}

\* a declaration, or a declaration cut short
Pieces ==
    UNION {{SubSeq(d, 1, k) : k \in 1..Len(d)} :
           d \in Decls \cup MalformedDecls \cup QuantumDecls}

TokenInputs(max) ==
    {Flatten(ps) : ps \in UNION {[1..k -> Pieces] : k \in 0..max}}

\* the source of a second program: two containers that list each other
CircularSource == BoundaryDecl("A", <<"B">>) \o BoundaryDecl("B", <<"A">>)

\* ------------------------------------------ programs a caller constructs
Slots(k) ==
    {ms \in UNION {[1..n -> (1..k) \X MemberNames] : n \in 0..MaxMembers} :
        \A i \in 1..(Len(ms) - 1) : ms[i][1] <= ms[i + 1][1]}

ContentOf(ms, i) ==
    LET sel == SelectSeq(ms, LAMBDA x : x[1] = i)
    IN  [j \in 1..Len(sel) |-> sel[j][2]]

BoundaryLists(max) ==
    UNION {{[i \in 1..k |-> MkBoundary(nm[i], ContentOf(ms, i))] :
               nm \in [1..k -> ContainerNames], ms \in Slots(k)} :
           k \in 0..max}

\* the state-space and choice-point declarations that go with a container
\* list: none; a choice-point whose second label no state-space declares; a
\* choice-point whose labels are the halves of a compound label
Declarations ==
    {[domains |-> <<>>, qubits |-> <<>>],
     [domains |-> <<Domain("d", <<<<"s">>>>)>>, qubits |-> <<Qubit("q", "s", "t")>>],
     [domains |-> <<Domain("d", <<<<"s", "t">>>>)>>, qubits |-> <<Qubit("q", "s", "t")>>]}

Programs(max) ==
    {QGLProgram(bs, dq.domains, dq.qubits) : bs \in BoundaryLists(max), dq \in Declarations}

\* the program of test_qubit_domain_validation
QubitDomainTestProgram ==
    QGLProgram(<<MkBoundary("System", <<"my_domain", "my_qubit">>)>>,
               <<Domain("MyDomain", <<<<"state1">>, <<"state2">>>>)>>,
               <<Qubit("my_qubit", "state1", "state2")>>)

\* the program of test_qubit_missing_domain_rejection
QubitMissingDomainTestProgram ==
    QGLProgram(<<MkBoundary("System", <<"my_domain", "my_qubit">>)>>,
               <<Domain("MyDomain", <<<<"state1">>>>)>>,
               <<Qubit("my_qubit", "state1", "state2")>>)

TestPrograms == {QubitDomainTestProgram, QubitMissingDomainTestProgram}

\* containers listing each other in a ring: ring[i] lists ring[i + 1], the last
\* one lists the first; extra is appended to the first container's members
RingOf(ring, extra) ==
    [i \in 1..Len(ring) |->
        MkBoundary(ring[i], <<ring[(i % Len(ring)) + 1]>> \o (IF i = 1 THEN extra ELSE <<>>))]

\* programs whose containers form a ring of two, three or four, with and
\* without the state-space and the choice-point among the first one's members
CyclePrograms ==
    {QGLProgram(RingOf(ring, extra), dq.domains, dq.qubits) :
        ring \in {<<"A", "B">>, <<"A", "B", "C">>, <<"A", "B", "C", "D">>},
        extra \in {<<>>, <<"d", "q">>},
        dq \in Declarations}

\* programs of one container that lists every state-space and choice-point,
\* with plain and compound labels spread over one or two state-spaces, and
\* choice-points whose first, second or both labels may be undeclared
LabelPrograms ==
    {QGLProgram(<<MkBoundary("S", <<"d", "e", "q", "r">>)>>, ds, qs) :
        ds \in {<<>>,
                <<Domain("d", <<<<"s">>>>)>>,
                <<Domain("d", <<<<"s", "t">>>>)>>,
                <<Domain("d", <<<<"s">>>>), Domain("e", <<<<"t">>>>)>>,
                <<Domain("d", <<<<"s">>, <<"u", "t">>>>)>>},
        qs \in {<<Qubit("q", "s", "t")>>,
                <<Qubit("q", "t", "s")>>,
                <<Qubit("q", "u", "v")>>,
                <<Qubit("q", "s", "s"), Qubit("r", "t", "u")>>,
                <<Qubit("q", "s(+)t", "s")>>}}

\* programs of two state-spaces and two choice-points with resolved labels,
\* and no container or one container holding some of the four names
ContainmentPrograms ==
    {QGLProgram(bs,
                <<Domain("d", <<<<"s">>>>), Domain("e", <<<<"t">>>>)>>,
                <<Qubit("q", "s", "t"), Qubit("r", "t", "s")>>) :
        bs \in {<<>>} \cup
               {<<MkBoundary("S", SelectSeq(<<"d", "e", "q", "r">>, LAMBDA n : n \in held))>> :
                   held \in SUBSET {"d", "e", "q", "r"}}}

\* ------------------------------------------------ admissibility engine
AdmissibilityEngine == [structures |-> <<>>, accumulation |-> <<>>]

no_self_membership(structure_name, contents) == structure_name \notin contents

\* the dict built at admissibility.py:76-77: a later container of the same
\* name overwrites an earlier one
Structures(boundaries) ==
    [n \in {boundaries[i].name : i \in DOMAIN boundaries} |->
        Range(boundaries[Max({i \in DOMAIN boundaries : boundaries[i].name = n})].content)]

\* a ring of three is found as well as a pair
no_circular_containment_three(structures) ==
    ~ \E a_name \in DOMAIN structures :
        \E b_name \in structures[a_name] \cap DOMAIN structures :
            \E c_name \in structures[b_name] \cap DOMAIN structures :
                a_name \in structures[b_name] \/ a_name \in structures[c_name]

no_circular_containment(structures) ==
    ~ \E a_name \in DOMAIN structures :
        \E b_name \in structures[a_name] :
            b_name \in DOMAIN structures /\ a_name \in structures[b_name]

\* a compound label contributes nothing of its halves
DomainStates_plain_only(domains) ==
    UNION {UNION {IF Len(domains[i].states[j]) = 1 THEN Range(domains[i].states[j]) ELSE {} :
                  j \in DOMAIN domains[i].states} :
           i \in DOMAIN domains}

\* a label is the sequence of its parts: one part for a plain label, the two
\* halves for a compound one ('(+)' in state_str, state_str.split('(+)'))
DomainStates(domains) ==
    UNION {UNION {Range(domains[i].states[j]) : j \in DOMAIN domains[i].states} :
           i \in DOMAIN domains}

_check_qubit_domains(qubits, domains) ==
    LET domain_states == DomainStates(domains)
        bad == {i \in DOMAIN qubits : qubits[i].state_a \notin domain_states
                                      \/ qubits[i].state_b \notin domain_states}
    IN  IF bad = {} THEN [ok |-> TRUE, reason |-> <<>>]
        ELSE LET q == qubits[CHOOSE i \in bad : \A j \in bad : i <= j]
                 missing == IF q.state_a \notin domain_states
                            THEN q.state_a ELSE q.state_b
             IN  [ok |-> FALSE,
                  reason |-> <<"Qubit state '", missing, "' not in any domain">>]

RECURSIVE JoinReasons(_)
JoinReasons(rs) ==
    IF Len(rs) = 0 THEN <<>>
    ELSE IF Len(rs) = 1 THEN rs[1]
    ELSE rs[1] \o <<"; ">> \o JoinReasons(Tail(rs))

\* the choice-points are not looked at
ContainmentReasons_domains_only(program) ==
    LET all_boundary_contents ==
            UNION {Range(program.boundaries[i].content) : i \in DOMAIN program.boundaries}
        dom == SelectSeq(program.domains, LAMBDA d : d.name \notin all_boundary_contents)
    IN  [i \in 1..Len(dom) |->
            <<"Domain '", dom[i].name, "' not contained in any boundary">>]

\* the first name found in no container ends the check
ContainmentReasons_first_only(program) ==
    LET all_boundary_contents ==
            UNION {Range(program.boundaries[i].content) : i \in DOMAIN program.boundaries}
        dom == SelectSeq(program.domains, LAMBDA d : d.name \notin all_boundary_contents)
        qub == SelectSeq(program.qubits, LAMBDA q : q.name \notin all_boundary_contents)
    IN  IF dom # <<>>
        THEN <<<<"Domain '", dom[1].name, "' not contained in any boundary">>>>
        ELSE IF qub # <<>>
        THEN <<<<"Qubit '", qub[1].name, "' not contained in any boundary">>>>
        ELSE <<>>

ContainmentReasons(program) ==
    LET all_boundary_contents ==
            UNION {Range(program.boundaries[i].content) : i \in DOMAIN program.boundaries}
        dom == SelectSeq(program.domains, LAMBDA d : d.name \notin all_boundary_contents)
        qub == SelectSeq(program.qubits, LAMBDA q : q.name \notin all_boundary_contents)
    IN  [i \in 1..Len(dom) |->
            <<"Domain '", dom[i].name, "' not contained in any boundary">>]
        \o
        [i \in 1..Len(qub) |->
            <<"Qubit '", qub[i].name, "' not contained in any boundary">>]

_get_timestamp == "no-time-reference"

\* the checks of check_structure in their order, admissibility.py:68-105
Checks(program) ==
    LET bs == program.boundaries
        selfc == {i \in DOMAIN bs : ~ no_self_membership(bs[i].name, Range(bs[i].content))}
        qcheck == _check_qubit_domains(program.qubits, program.domains)
        reasons == ContainmentReasons(program)
    IN  IF selfc # {}
        THEN [ok |-> FALSE,
              reason |-> <<"Boundary '", bs[CHOOSE i \in selfc : \A j \in selfc : i <= j].name,
                           "' contains itself">>]
        ELSE IF ~ no_circular_containment(Structures(bs))
        THEN [ok |-> FALSE, reason |-> <<"Circular containment detected">>]
        ELSE IF ~ qcheck.ok
        THEN [ok |-> FALSE, reason |-> qcheck.reason]
        ELSE IF reasons # <<>>
        THEN [ok |-> FALSE, reason |-> JoinReasons(reasons)]
        ELSE [ok |-> TRUE, reason |-> <<"Structure is admissible">>]

\* the ledger keeps the latest successful check only
Accumulate_latest(self, ref) ==
    [self EXCEPT !.accumulation =
        <<[type |-> "admissibility_check",
           program |-> ref,
           result |-> "admissible",
           timestamp |-> _get_timestamp]>>]

\* the ledger entry of a successful check, admissibility.py:107-113
Accumulate(self, ref) ==
    [self EXCEPT !.accumulation =
        Append(@, [type |-> "admissibility_check",
                   program |-> ref,
                   result |-> "admissible",
                   timestamp |-> _get_timestamp])]

\* once the ledger holds an entry, later programs are admitted unseen
check_structure_memo(self, program, ref) ==
    LET v == IF self.accumulation # <<>>
             THEN [ok |-> TRUE, reason |-> <<"Structure is admissible">>]
             ELSE Checks(program)
    IN  [ok |-> v.ok, reason |-> v.reason,
         self |-> IF v.ok THEN Accumulate(self, ref) ELSE self]

\* check_structure(self, program): program is the value of the object that
\* the reference ref points to; the result carries the engine afterwards
check_structure(self, program, ref) ==
    LET v == Checks(program)
    IN  [ok |-> v.ok, reason |-> v.reason,
         self |-> IF v.ok THEN Accumulate(self, ref) ELSE self]

get_accumulation(self) == self.accumulation

\* ------------------------------------------------------ inversion engine
InversionEngine == <<>>          \* self.inversion_log of a new engine

\* the objects the caller or an engine still refers to keep their cell;
\* an unreferenced copy is gone
Collect(h, roots) == [o \in DOMAIN h |-> IF o \in roots THEN h[o] ELSE NoProgram]

\* a copy that is no copy: the "new" program is the caller's object
deepcopy_alias(h, p, fresh) == [heap |-> h, ref |-> p]

\* copy.deepcopy(program): a new object, equal in value, sharing nothing
deepcopy(h, p, fresh) == [heap |-> [h EXCEPT ![fresh] = h[p]], ref |-> fresh]

\* the new containers are made without the inverted container as member
NewBoundaries_without_member(boundary) ==
    [i \in 1..Len(boundary.content) |-> Boundary(boundary.content[i], <<>>)]

\* only the first member becomes a container
NewBoundaries_first_only(boundary) ==
    [i \in 1..(IF Len(boundary.content) = 0 THEN 0 ELSE 1) |->
        Boundary(boundary.content[i], <<boundary.name>>)]

\* the containers type(boundary)(name=item_name, content=[boundary.name])
\* builds for the members of the inverted container
NewBoundaries(boundary) ==
    [i \in 1..Len(boundary.content) |-> Boundary(boundary.content[i], <<boundary.name>>)]

\* the inverted container stays in the container list
_perform_atomic_swap_keeping(h, ref, boundary) ==
    LET made == NewBoundaries(boundary)
    IN  IF \E i \in DOMAIN made : made[i].raise # ""
        THEN [raise |-> "ValueError", heap |-> h]
        ELSE [raise |-> "",
              heap |-> [h EXCEPT ![ref].boundaries =
                           @ \o [i \in DOMAIN made |->
                                    MkBoundary(made[i].name, made[i].content)]]]

\* _perform_atomic_swap(program, boundary): mutates the object at ref
_perform_atomic_swap(h, ref, boundary) ==
    LET kept == SelectSeq(h[ref].boundaries, LAMBDA b : b.name # boundary.name)
        made == NewBoundaries(boundary)
    IN  IF \E i \in DOMAIN made : made[i].raise # ""
        THEN [raise |-> "ValueError",
              heap |-> [h EXCEPT ![ref].boundaries = kept]]
        ELSE [raise |-> "",
              heap |-> [h EXCEPT ![ref].boundaries =
                           kept \o [i \in DOMAIN made |->
                                       MkBoundary(made[i].name, made[i].content)]]]

FirstNamed(boundaries, boundary_name) ==
    LET hits == {i \in DOMAIN boundaries : boundaries[i].name = boundary_name}
    IN  IF hits = {} THEN 0 ELSE CHOOSE i \in hits : \A j \in hits : i <= j

\* the transformed copy is taken to be admissible without looking
validate_after_skipped(adm, program, ref) ==
    [ok |-> TRUE, reason |-> <<"Structure is admissible">>, self |-> adm]

\* step 5 of invert: the validator run on the transformed copy
validate_after(adm, program, ref) == check_structure(adm, program, ref)

\* the log keeps the latest inversion only
log_inversion_latest(log, boundary_name, p, new_program) ==
    <<[boundary |-> boundary_name,
       before |-> p,
       after |-> new_program,
       atomic |-> TRUE,
       iterations |-> 0]>>

\* step 6 of invert: the log entry of a successful inversion
log_inversion(log, boundary_name, p, new_program) ==
    Append(log, [boundary |-> boundary_name,
                 before |-> p,
                 after |-> new_program,
                 atomic |-> TRUE,
                 iterations |-> 0])

\* steps 3-6 of invert: copy, swap, validate again, log
transform(log, adm, h, p, boundary_name, boundary_to_invert, fresh) ==
    LET c == deepcopy(h, p, fresh)
        sw == _perform_atomic_swap(c.heap, c.ref, boundary_to_invert)
        r2 == validate_after(adm, sw.heap[c.ref], c.ref)
    IN  IF sw.raise # ""
        THEN [kind |-> "raise", program |-> 0, success |-> FALSE,
              reason |-> <<sw.raise>>,
              heap |-> sw.heap, adm |-> adm, log |-> log]
        ELSE IF ~ r2.ok
        THEN [kind |-> "return", program |-> p, success |-> FALSE,
              reason |-> <<"Inversion produced inadmissible structure: ">> \o r2.reason,
              heap |-> sw.heap, adm |-> r2.self, log |-> log]
        ELSE [kind |-> "return", program |-> c.ref, success |-> TRUE,
              reason |-> <<"Inversion successful">>,
              heap |-> sw.heap, adm |-> r2.self,
              log |-> log_inversion(log, boundary_name, p, c.ref)]

\* the container is looked up before the program is validated
invert_lookup_first(log, adm, h, p, boundary_name, fresh) ==
    LET r1 == check_structure(adm, h[p], p)
        idx == FirstNamed(h[p].boundaries, boundary_name)
    IN  IF idx = 0
        THEN [kind |-> "return", program |-> p, success |-> FALSE,
              reason |-> <<"Boundary '", boundary_name, "' not found">>,
              heap |-> h, adm |-> adm, log |-> log]
        ELSE IF ~ r1.ok
        THEN [kind |-> "return", program |-> p, success |-> FALSE,
              reason |-> <<"Cannot invert inadmissible structure: ">> \o r1.reason,
              heap |-> h, adm |-> r1.self, log |-> log]
        ELSE transform(log, r1.self, h, p, boundary_name, h[p].boundaries[idx], fresh)

\* invert(self, program, boundary_name) on the heap h, with the two engines'
\* state; fresh is the address the allocator hands to deepcopy
invert(log, adm, h, p, boundary_name, fresh) ==
    LET r1 == check_structure(adm, h[p], p)
        idx == FirstNamed(h[p].boundaries, boundary_name)
    IN  IF ~ r1.ok
        THEN [kind |-> "return", program |-> p, success |-> FALSE,
              reason |-> <<"Cannot invert inadmissible structure: ">> \o r1.reason,
              heap |-> h, adm |-> r1.self, log |-> log]
        ELSE IF idx = 0
        THEN [kind |-> "return", program |-> p, success |-> FALSE,
              reason |-> <<"Boundary '", boundary_name, "' not found">>,
              heap |-> h, adm |-> r1.self, log |-> log]
        ELSE transform(log, r1.self, h, p, boundary_name, h[p].boundaries[idx], fresh)

get_inversion_count(log) == Len(log)

get_inversion_history(log) == log

\* ---------------------------------------------------------------- daemon
\* the objects the engines refer to from the ledger and from the log
HistoryRefs(adm, log) ==
    {adm.accumulation[i].program : i \in DOMAIN adm.accumulation}
    \cup {log[i].before : i \in DOMAIN log} \cup {log[i].after : i \in DOMAIN log}

\* the except clause of _check_admissibility and _perform_inversion: str(e)
\* of a denylist error names one of the words found
ErrorResponse(exc, msg, named) ==
    [type |-> "error", exc |-> exc, message |-> msg, named |-> named]

\* the value of a one-element set: Only({e(x) : x \in {v}}) is e(v), with
\* v computed once
Only(S) == CHOOSE x \in S : TRUE

\* _check_admissibility(qgl_code) on the engine adm and the heap h; fresh[1]
\* is the address of the program parse returns; called: the operations
\* entered.  t is the outcome of tokenize, p of parse, c of check_structure
_check_admissibility(adm, log, h, qgl_code, fresh) ==
    Only({IF t.raise # ""
          THEN [response |-> ErrorResponse(t.raise, t.msg, t.named),
                adm |-> adm, log |-> log, heap |-> h, called |-> {"tokenize"}]
          ELSE Only({IF p.raise # ""
                     THEN [response |-> ErrorResponse(p.raise, p.msg, {}),
                           adm |-> adm, log |-> log, heap |-> h,
                           called |-> {"tokenize", "parse"}]
                     ELSE Only({[response |-> [type |-> "admissibility_result",
                                               admissible |-> c.ok,
                                               reason |-> c.reason,
                                               program_summary |-> p.value],
                                 adm |-> c.self, log |-> log,
                                 heap |-> [h EXCEPT ![fresh[1]] = p.value],
                                 called |-> {"tokenize", "parse", "check_structure"}]
                                : c \in {check_structure(adm, p.value, fresh[1])}})
                    : p \in {parse(t.tokens)}})
         : t \in {tokenize(qgl_code)}})

\* the part of _perform_inversion after parse returned program: invert, and
\* the response built from what it returns or raises
InversionResponse(adm, log, h, program, boundary_name, fresh) ==
    Only({IF r.kind = "raise"
          THEN [response |-> ErrorResponse(r.reason[1], "", {}),
                adm |-> r.adm, log |-> r.log, heap |-> r.heap,
                called |-> {"tokenize", "parse", "invert"}]
          ELSE [response |-> [type |-> "inversion_result",
                              success |-> r.success,
                              reason |-> r.reason,
                              original_program |-> r.heap[fresh[1]],
                              new_program |-> r.heap[r.program],
                              inversion_count |-> get_inversion_count(r.log)],
                adm |-> r.adm, log |-> r.log, heap |-> r.heap,
                called |-> {"tokenize", "parse", "invert"}]
         : r \in {invert(log, adm, [h EXCEPT ![fresh[1]] = program], fresh[1],
                         boundary_name, fresh[2])}})

\* _perform_inversion(qgl_code, boundary_name); fresh[2] is the address of
\* the copy invert makes
_perform_inversion(adm, log, h, qgl_code, boundary_name, fresh) ==
    Only({IF t.raise # ""
          THEN [response |-> ErrorResponse(t.raise, t.msg, t.named),
                adm |-> adm, log |-> log, heap |-> h, called |-> {"tokenize"}]
          ELSE Only({IF p.raise # ""
                     THEN [response |-> ErrorResponse(p.raise, p.msg, {}),
                           adm |-> adm, log |-> log, heap |-> h,
                           called |-> {"tokenize", "parse"}]
                     ELSE InversionResponse(adm, log, h, p.value, boundary_name, fresh)
                    : p \in {parse(t.tokens)}})
         : t \in {tokenize(qgl_code)}})

\* _process_request(request)
_process_request(adm, log, h, request, fresh) ==
    IF request.type = "check_admissibility"
    THEN _check_admissibility(adm, log, h, request.qgl_code, fresh)
    ELSE IF request.type = "perform_inversion"
    THEN _perform_inversion(adm, log, h, request.qgl_code, request.boundary_name, fresh)
    ELSE IF request.type = "get_accumulation"
    THEN [response |-> [type |-> "accumulation", data |-> get_accumulation(adm)],
          adm |-> adm, log |-> log, heap |-> h, called |-> {}]
    ELSE [response |-> [type |-> "error", exc |-> "", message |-> "Unknown request type",
                        named |-> {request.type}],
          adm |-> adm, log |-> log, heap |-> h, called |-> {}]

\* ------------------------------------------------ requests given to the daemon
\* boundary A{B}
GoodSource == <<"boundary", " ", "A", "{", "B", "}">>

\* boundary A{in}
ForbiddenSource == <<"boundary", " ", "A", "{", "in", "}">>

\* tokenize or parse fails for the source text of a request
SourceFails(request) ==
    /\ request.type \in {"check_admissibility", "perform_inversion"}
    /\ \E t \in {tokenize(request.qgl_code)} :
           t.raise # "" \/ parse(t.tokens).raise # ""

\* the program objects and ledger entries the processing of a request takes
Needs(request) ==
    IF request.type \notin {"check_admissibility", "perform_inversion"} \/ SourceFails(request)
    THEN 0
    ELSE IF request.type = "check_admissibility" THEN 1 ELSE 2

RECURSIVE SumNeeds(_)
SumNeeds(requests) ==
    IF requests = <<>> THEN 0 ELSE Needs(Head(requests)) + SumNeeds(Tail(requests))

\* a request as submit_request puts it; from is not part of the request: it
\* records the thread that put it
Requests ==
    {[type |-> "check_admissibility", qgl_code |-> GoodSource, boundary_name |-> "", from |-> ""],
     [type |-> "check_admissibility", qgl_code |-> ForbiddenSource, boundary_name |-> "", from |-> ""],
     [type |-> "perform_inversion", qgl_code |-> SampleSelfListing, boundary_name |-> "A", from |-> ""],
     [type |-> "perform_inversion", qgl_code |-> GoodSource, boundary_name |-> "A", from |-> ""],
     [type |-> "get_accumulation", qgl_code |-> <<>>, boundary_name |-> "", from |-> ""],
     [type |-> "ping", qgl_code |-> <<>>, boundary_name |-> "", from |-> ""],
     [type |-> "not a dict", qgl_code |-> <<>>, boundary_name |-> "", from |-> ""]}

\* a request that is no dict (None, a string): request.get raises
\* AttributeError at the first line of _process_request
Malformed(request) == request.type = "not a dict"


Callers == {"c1", "c2"}

\* ---------------------------------------------------------------- state
VARIABLES
    input,           \* the token sequence waiting to be parsed, if any
    heap,            \* program objects by address
    admissibility,   \* the AdmissibilityEngine instance
    inversion_log,   \* InversionEngine.inversion_log
    ret,             \* the last call: its arguments as they were when it was
                     \* made, and what it returned or raised
    successes,       \* number of invert calls that returned success = True
    snapshot         \* the list a caller got from get_accumulation or
                     \* get_inversion_history: the entries it holds, each the
                     \* very dict of the engine's list, named by its position there

callerVars == <<snapshot>>

VARIABLES
    code             \* the source text waiting to be tokenized, if any

lexerVars == <<code>>

VARIABLES
    request_queue,   \* QGLDaemon.request_queue, oldest first
    response_queue,  \* QGLDaemon.response_queue, oldest first
    is_running,      \* QGLDaemon.is_running
    worker_thread,   \* QGLDaemon.worker_thread: the thread created last, 0 for None
    workers,         \* the threads running _worker_loop: where each one is, the
                     \* request it took and the response it computed
    callers          \* the threads calling start, stop and submit_request: where
                     \* each one is in its call, and how many calls it has made

daemonVars == <<request_queue, response_queue, is_running, worker_thread, workers, callers>>

vars == <<input, heap, admissibility, inversion_log, ret, successes, callerVars,
          lexerVars, daemonVars>>

Objs == 1..MaxObjs
Live == {o \in Objs : heap[o] # NoProgram}
Free == Objs \ Live
FirstFree == CHOOSE o \in Free : \A x \in Free : o <= x

NoInput == [pending |-> FALSE, tokens |-> <<>>]
NoRet == [op |-> "none"]
NoSnapshot == [of |-> "none", items |-> <<>>]
NoCode == [pending |-> FALSE, text |-> <<>>]

Pending(tokens) == [pending |-> TRUE, tokens |-> tokens]

WorkerIds == 1..MaxWorkers

NoRequest == [type |-> "none"]
NoResponse == [type |-> "none"]

\* QGLDaemon.__init__: empty queues, not running, no thread
NewDaemon ==
    /\ request_queue = <<>>
    /\ response_queue = <<>>
    /\ is_running = FALSE
    /\ worker_thread = 0
    /\ workers = [w \in WorkerIds |->
                     [pc |-> "unborn", request |-> NoRequest, response |-> NoResponse]]
    /\ callers = [c \in Callers |->
                     [pc |-> "idle", calls |-> 0, joins |-> 0, request |-> NoRequest,
                      to_started |-> FALSE]]

NewEngines ==
    /\ admissibility = AdmissibilityEngine
    /\ inversion_log = InversionEngine
    /\ ret = NoRet
    /\ successes = 0
    /\ snapshot = NoSnapshot
    /\ NewDaemon

\* a caller holding a source text, and new engines
InitLex ==
    /\ \E text \in CodeInputs(MaxCode) : code = [pending |-> TRUE, text |-> text]
    /\ input = NoInput
    /\ heap = [o \in Objs |-> NoProgram]
    /\ NewEngines

\* a caller holding a program it constructed, possibly with the source of a
\* second program still to be parsed, and new engines
Init ==
    /\ code = NoCode
    /\ input \in {NoInput, Pending(CircularSource)}
    /\ \E P \in Programs(MaxHeld) :
           heap = [o \in Objs |-> IF o = 1 THEN P ELSE NoProgram]
    /\ NewEngines

\* a caller holding a token sequence, and new engines
InitParse ==
    /\ code = NoCode
    /\ \E tokens \in TokenInputs(MaxDecls) : input = Pending(tokens)
    /\ heap = [o \in Objs |-> NoProgram]
    /\ NewEngines

\* a caller holding a program it constructed, the tests' programs and the
\* rings among them, and a new validator
InitCheck ==
    /\ code = NoCode
    /\ input = NoInput
    /\ \E P \in Programs(MaxBoundaries) \cup TestPrograms \cup CyclePrograms
                   \cup LabelPrograms \cup ContainmentPrograms :
           heap = [o \in Objs |-> IF o = 1 THEN P ELSE NoProgram]
    /\ NewEngines

\* a caller holding a program of containers only, one at most, and new engines
InitCaller ==
    /\ code = NoCode
    /\ input = NoInput
    /\ \E P \in {Q \in Programs(1) : Q.domains = <<>>} :
           heap = [o \in Objs |-> IF o = 1 THEN P ELSE NoProgram]
    /\ NewEngines

\* tokens = lexer.tokenize(code) by the caller; a SyntaxError of the denylist
\* gate names one of the words found, whichever the set's iteration meets first
Tokenize ==
    /\ code.pending
    /\ \E r \in {tokenize(code.text)} :
           \E named \in (IF r.raise = "" THEN {""} ELSE r.named) :
               /\ input' = IF r.raise = "" THEN Pending(r.tokens) ELSE input
               /\ ret' = [op |-> "tokenize", code |-> code.text,
                          engine_before |-> admissibility, log_before |-> inversion_log,
                          kind |-> IF r.raise = "" THEN "return" ELSE "raise",
                          exc |-> r.raise, msg |-> r.msg, named |-> named,
                          tokens |-> r.tokens]
    /\ code' = NoCode
    /\ UNCHANGED <<heap, admissibility, inversion_log, successes>>
    /\ UNCHANGED <<callerVars, daemonVars>>

\* parse(tokens) by the caller: the program it returns is a new object
Parse ==
    /\ input.pending
    /\ Free # {}
    /\ \E r \in {parse(input.tokens)} :
           /\ heap' = IF r.raise = "" THEN [heap EXCEPT ![FirstFree] = r.value] ELSE heap
           /\ ret' = [op |-> "parse", tokens |-> input.tokens,
                      engine_before |-> admissibility, log_before |-> inversion_log,
                      kind |-> IF r.raise = "" THEN "return" ELSE "raise",
                      exc |-> r.raise,
                      result |-> IF r.raise = "" THEN FirstFree ELSE 0]
    /\ input' = NoInput
    /\ UNCHANGED <<admissibility, inversion_log, successes>>
    /\ UNCHANGED <<callerVars, lexerVars, daemonVars>>

CheckStructure(p) ==
    /\ p \in Live
    /\ Len(admissibility.accumulation) < MaxLedger
    /\ \E r \in {check_structure(admissibility, heap[p], p)} :
           /\ admissibility' = r.self
           /\ ret' = [op |-> "check_structure", program |-> p, before |-> heap[p],
                      engine_before |-> admissibility, log_before |-> inversion_log,
                      kind |-> "return", ok |-> r.ok, reason |-> r.reason]
    /\ UNCHANGED <<input, heap, inversion_log, successes>>
    /\ UNCHANGED <<callerVars, lexerVars, daemonVars>>

Invert(p, boundary_name) ==
    /\ p \in Live
    /\ Free # {}
    /\ Len(admissibility.accumulation) + 2 <= MaxLedger
    /\ \E r \in {invert(inversion_log, admissibility, heap, p, boundary_name, FirstFree)} :
           /\ heap' = Collect(r.heap, Live \cup {r.program})
           /\ admissibility' = r.adm
           /\ inversion_log' = r.log
           /\ ret' = [op |-> "invert", program |-> p, before |-> heap[p],
                      boundary_name |-> boundary_name,
                      engine_before |-> admissibility, log_before |-> inversion_log,
                      kind |-> r.kind, result |-> r.program,
                      success |-> r.success, reason |-> r.reason]
           /\ successes' = IF r.kind = "return" /\ r.success
                           THEN successes + 1 ELSE successes
    /\ UNCHANGED input
    /\ UNCHANGED <<callerVars, lexerVars, daemonVars>>

Next ==
    \/ Parse
    \/ \E p \in Objs : CheckStructure(p)
    \/ \E p \in Objs, boundary_name \in TargetNames : Invert(p, boundary_name)

\* the inversion engine and the validator on constructed programs
Spec == Init /\ [][Next]_vars

\* the pipeline from a token sequence on
SpecParse == InitParse /\ [][Next]_vars

NextCheck == \E p \in Objs : CheckStructure(p)

\* the validator alone, on the larger programs
SpecCheck == InitCheck /\ [][NextCheck]_vars

NextLex ==
    \/ Tokenize
    \/ Parse
    \/ \E p \in Objs : CheckStructure(p)

\* the pipeline from a source text on
SpecLex == InitLex /\ [][NextLex]_vars

\* ------------------------------------------- what a caller does in between
\* list.copy() of a list of n entries: a new list of the same n dicts
ListCopy(entries) == [i \in 1..Len(entries) |-> i]

\* what the engines report: the ledger and the inversion log, every entry
\* with the programs it refers to as they are now
Reported(adm, log, h) ==
    [accumulation |-> [i \in 1..Len(adm.accumulation) |->
                          [adm.accumulation[i] EXCEPT !.program = h[@]]],
     inversion_log |-> [i \in 1..Len(log) |->
                          [log[i] EXCEPT !.before = h[@], !.after = h[@]]]]

CallerRet == [op |-> "caller",
              reported_before |-> Reported(admissibility, inversion_log, heap)]

\* snapshot = engine.get_accumulation(), the one list this caller asks for
GetAccumulation ==
    /\ snapshot = NoSnapshot
    /\ snapshot' = [of |-> "accumulation",
                    items |-> ListCopy(get_accumulation(admissibility))]
    /\ ret' = CallerRet
    /\ UNCHANGED <<lexerVars, daemonVars>>
    /\ UNCHANGED <<input, heap, admissibility, inversion_log, successes>>

\* snapshot = engine.get_inversion_history(), the one list this caller asks for
GetInversionHistory ==
    /\ snapshot = NoSnapshot
    /\ snapshot' = [of |-> "inversion_log",
                    items |-> ListCopy(get_inversion_history(inversion_log))]
    /\ ret' = CallerRet
    /\ UNCHANGED <<lexerVars, daemonVars>>
    /\ UNCHANGED <<input, heap, admissibility, inversion_log, successes>>

\* snapshot.pop(): the caller's list loses its last entry
SnapshotPop ==
    /\ snapshot.items # <<>>
    /\ snapshot' = [snapshot EXCEPT !.items = SubSeq(@, 1, Len(@) - 1)]
    /\ ret' = CallerRet
    /\ UNCHANGED <<lexerVars, daemonVars>>
    /\ UNCHANGED <<input, heap, admissibility, inversion_log, successes>>

\* snapshot[k]['result'] = 'tampered', or snapshot[k]['atomic'] = False: an
\* assignment to a key of the dict the caller's list shares with the engine's
SnapshotEntryAssign(k) ==
    /\ k \in DOMAIN snapshot.items
    /\ IF snapshot.of = "accumulation"
       THEN /\ admissibility' =
                  [admissibility EXCEPT !.accumulation[snapshot.items[k]].result = "tampered"]
            /\ UNCHANGED inversion_log
       ELSE /\ inversion_log' = [inversion_log EXCEPT ![snapshot.items[k]].atomic = FALSE]
            /\ UNCHANGED admissibility
    /\ ret' = CallerRet
    /\ UNCHANGED <<lexerVars, daemonVars>>
    /\ UNCHANGED <<input, heap, successes, snapshot>>

\* program.boundaries.pop() on a program the caller constructed, parsed or
\* received from invert
ProgramPop(p) ==
    /\ p \in Live
    /\ heap[p].boundaries # <<>>
    /\ heap' = [heap EXCEPT ![p].boundaries = SubSeq(@, 1, Len(@) - 1)]
    /\ ret' = CallerRet
    /\ UNCHANGED <<lexerVars, daemonVars>>
    /\ UNCHANGED <<input, admissibility, inversion_log, successes, snapshot>>

NextCaller ==
    \/ \E p \in Objs : CheckStructure(p)
    \/ \E p \in Objs, boundary_name \in TargetNames : Invert(p, boundary_name)
    \/ GetAccumulation
    \/ GetInversionHistory
    \/ SnapshotPop
    \/ \E k \in 1..MaxLedger : SnapshotEntryAssign(k)
    \/ \E p \in Objs : ProgramPop(p)

\* the engines and a caller that keeps what they hand out
SpecCaller == InitCaller /\ [][NextCaller]_vars

\* ------------------------------------------------------- daemon threads
\* a daemon just constructed, and threads about to call it
InitDaemon ==
    /\ code = NoCode
    /\ input = NoInput
    /\ heap = [o \in Objs |-> NoProgram]
    /\ NewEngines

engineVars == <<input, heap, admissibility, inversion_log, successes>>

Idle(c) == callers[c].pc = "idle" /\ callers[c].calls < MaxCalls

Alive(w) == workers[w].pc \notin {"unborn", "dead"}

\* start(), line 35: if self.is_running: return
StartCheck(c) ==
    /\ Idle(c)
    /\ callers' = [callers EXCEPT ![c].calls = @ + 1,
                                  ![c].pc = IF is_running THEN "idle" ELSE "start_set"]
    /\ ret' = [op |-> "start", caller |-> c]
    /\ UNCHANGED <<request_queue, response_queue, is_running, worker_thread, workers>>
    /\ UNCHANGED <<engineVars, callerVars, lexerVars>>

\* start(), lines 38-44: self.is_running = True, then the new thread is
\* created, stored in self.worker_thread and started
StartThread(c) ==
    /\ callers[c].pc = "start_set"
    /\ \E w \in WorkerIds :
           /\ workers[w].pc = "unborn"
           /\ \A v \in WorkerIds : workers[v].pc = "unborn" => w <= v
           /\ workers' = [workers EXCEPT ![w].pc = "loop"]
           /\ worker_thread' = w
    /\ is_running' = TRUE
    /\ callers' = [callers EXCEPT ![c].pc = "idle"]
    /\ ret' = [op |-> "start", caller |-> c]
    /\ UNCHANGED <<request_queue, response_queue>>
    /\ UNCHANGED <<engineVars, callerVars, lexerVars>>

\* stop(), lines 49-50: self.is_running = False, then the thread to join is read
Stop(c) ==
    /\ Idle(c)
    /\ is_running' = FALSE
    /\ callers' = [callers EXCEPT ![c].calls = @ + 1,
                                  ![c].pc = IF worker_thread = 0 THEN "idle" ELSE "join",
                                  ![c].joins = worker_thread]
    /\ ret' = [op |-> "stop", caller |-> c]
    /\ UNCHANGED <<request_queue, response_queue, worker_thread, workers>>
    /\ UNCHANGED <<engineVars, callerVars, lexerVars>>

\* stop(), line 51: join(timeout=1.0) returns when the thread has ended
Join(c) ==
    /\ callers[c].pc = "join"
    /\ ~ Alive(callers[c].joins)
    /\ callers' = [callers EXCEPT ![c].pc = "idle"]
    /\ ret' = [op |-> "stop", caller |-> c]
    /\ UNCHANGED <<request_queue, response_queue, is_running, worker_thread, workers>>
    /\ UNCHANGED <<engineVars, callerVars, lexerVars>>

\* stop(), line 51: join(timeout=1.0) gives up after a second; the thread
\* is still inside a request then, or is still looping because is_running
\* was set again (otherwise it ends within its 0.1 s wait)
JoinTimeout(c) ==
    /\ callers[c].pc = "join"
    /\ \/ workers[callers[c].joins].pc = "inside"
       \/ Alive(callers[c].joins) /\ is_running
    /\ callers' = [callers EXCEPT ![c].pc = "idle"]
    /\ ret' = [op |-> "stop", caller |-> c]
    /\ UNCHANGED <<request_queue, response_queue, is_running, worker_thread, workers>>
    /\ UNCHANGED <<engineVars, callerVars, lexerVars>>

\* the requests put and not yet processed
Outstanding ==
    request_queue \o
    [i \in 1..Cardinality({w \in WorkerIds : workers[w].pc = "inside"}) |->
        workers[CHOOSE w \in WorkerIds :
                    /\ workers[w].pc = "inside"
                    /\ Cardinality({v \in WorkerIds : v < w /\ workers[v].pc = "inside"}) = i - 1]
            .request]

\* submit_request(request), line 150: self.request_queue.put(request); the
\* calls stop when the heap or the ledger of the model has no room left for
\* the requests put; to_started records that the daemon had been started
Submit(c, request) ==
    /\ Idle(c)
    /\ Cardinality(Live) + SumNeeds(Outstanding) + Needs(request) <= MaxObjs
    /\ Len(admissibility.accumulation) + SumNeeds(Outstanding) + Needs(request) <= MaxLedger
    /\ request_queue' = Append(request_queue, [request EXCEPT !.from = c])
    /\ callers' = [callers EXCEPT ![c].calls = @ + 1, ![c].pc = "await",
                                  ![c].request = [request EXCEPT !.from = c],
                                  ![c].to_started = is_running /\ \E w \in WorkerIds : Alive(w)]
    /\ ret' = [op |-> "put_request", caller |-> c]
    /\ UNCHANGED <<response_queue, is_running, worker_thread, workers>>
    /\ UNCHANGED <<engineVars, callerVars, lexerVars>>

\* submit_request(request), lines 153-154: response = self.response_queue.get()
Receive(c) ==
    /\ callers[c].pc = "await"
    /\ response_queue # <<>>
    /\ response_queue' = Tail(response_queue)
    /\ callers' = [callers EXCEPT ![c].pc = "idle", ![c].request = NoRequest]
    /\ ret' = [op |-> "submit_request", caller |-> c,
               request |-> callers[c].request,
               response |-> Head(response_queue).body,
               for |-> Head(response_queue).for]
    /\ UNCHANGED <<request_queue, is_running, worker_thread, workers>>
    /\ UNCHANGED <<engineVars, callerVars, lexerVars>>

\* _worker_loop, line 56: while self.is_running
WorkerLoop(w) ==
    /\ workers[w].pc = "loop"
    /\ workers' = [workers EXCEPT ![w].pc = IF is_running THEN "get" ELSE "dead"]
    /\ ret' = [op |-> "worker", worker |-> w]
    /\ UNCHANGED <<request_queue, response_queue, is_running, worker_thread, callers>>
    /\ UNCHANGED <<engineVars, callerVars, lexerVars>>

\* line 59: request = self.request_queue.get(timeout=0.1) returns a request,
\* and line 62 enters _process_request
WorkerGet(w) ==
    /\ workers[w].pc = "get"
    /\ request_queue # <<>>
    /\ request_queue' = Tail(request_queue)
    /\ workers' = [workers EXCEPT ![w].pc = "inside", ![w].request = Head(request_queue)]
    /\ ret' = [op |-> "worker", worker |-> w]
    /\ UNCHANGED <<response_queue, is_running, worker_thread, callers>>
    /\ UNCHANGED <<engineVars, callerVars, lexerVars>>

\* line 59 raises queue.Empty after 0.1 s, lines 67-69 continue the loop
WorkerGetTimeout(w) ==
    /\ workers[w].pc = "get"
    /\ request_queue = <<>>
    /\ workers' = [workers EXCEPT ![w].pc = "loop"]
    /\ ret' = [op |-> "worker", worker |-> w]
    /\ UNCHANGED <<request_queue, response_queue, is_running, worker_thread, callers>>
    /\ UNCHANGED <<engineVars, callerVars, lexerVars>>

\* the addresses the allocator hands out next, 0 where the heap is full
NextFree ==
    LET f1 == IF Free = {} THEN 0 ELSE FirstFree
        rest == Free \ {f1}
    IN  <<f1, IF rest = {} THEN 0 ELSE CHOOSE o \in rest : \A x \in rest : o <= x>>

\* line 62: response = self._process_request(request), taken as one step of
\* the worker that is inside it; for records the thread whose request the
\* response answers.  A request that makes _process_request raise is
\* dropped by the except clause of lines 67-69, which continues the loop.
WorkerProcess(w) ==
    /\ workers[w].pc = "inside"
    /\ Cardinality(Free) >= Needs(workers[w].request)
    /\ IF Malformed(workers[w].request)
       THEN /\ workers' = [workers EXCEPT ![w].pc = "loop", ![w].request = NoRequest]
            /\ ret' = [op |-> "process", worker |-> w, request |-> workers[w].request,
                       response |-> NoResponse, called |-> {},
                       engine_before |-> admissibility, log_before |-> inversion_log,
                       heap_before |-> heap]
            /\ UNCHANGED <<heap, admissibility, inversion_log, successes>>
       ELSE \E r \in {_process_request(admissibility, inversion_log, heap,
                                       workers[w].request, NextFree)} :
                /\ admissibility' = r.adm
                /\ inversion_log' = r.log
                /\ heap' = Collect(r.heap, HistoryRefs(r.adm, r.log))
                /\ successes' = Len(r.log)
                /\ workers' = [workers EXCEPT ![w].pc = "put",
                                              ![w].response = [for |-> workers[w].request.from,
                                                               body |-> r.response]]
                /\ ret' = [op |-> "process", worker |-> w, request |-> workers[w].request,
                           response |-> r.response, called |-> r.called,
                           engine_before |-> admissibility, log_before |-> inversion_log,
                           heap_before |-> heap]
    /\ UNCHANGED <<request_queue, response_queue, is_running, worker_thread, callers>>
    /\ UNCHANGED <<input, callerVars, lexerVars>>

\* line 65: self.response_queue.put(response)
WorkerPut(w) ==
    /\ workers[w].pc = "put"
    /\ response_queue' = Append(response_queue, workers[w].response)
    /\ workers' = [workers EXCEPT ![w].pc = "loop", ![w].request = NoRequest,
                                  ![w].response = NoResponse]
    /\ ret' = [op |-> "worker", worker |-> w]
    /\ UNCHANGED <<request_queue, is_running, worker_thread, callers>>
    /\ UNCHANGED <<engineVars, callerVars, lexerVars>>

NextDaemon ==
    \/ \E c \in Callers : StartCheck(c)
    \/ \E c \in Callers : StartThread(c)
    \/ \E c \in Callers : Stop(c)
    \/ \E c \in Callers : Join(c)
    \/ \E c \in Callers : JoinTimeout(c)
    \/ \E c \in Callers, request \in Requests : Submit(c, request)
    \/ \E c \in Callers : Receive(c)
    \/ \E w \in WorkerIds : WorkerLoop(w)
    \/ \E w \in WorkerIds : WorkerGet(w)
    \/ \E w \in WorkerIds : WorkerGetTimeout(w)
    \/ \E w \in WorkerIds : WorkerProcess(w)
    \/ \E w \in WorkerIds : WorkerPut(w)

\* one daemon, its worker threads and the threads that call it
SpecDaemon == InitDaemon /\ [][NextDaemon]_vars

\* ------------------------------------------------------------ properties
\* the verdict of a newly constructed validator on a program value
Admissible(program) == check_structure(AdmissibilityEngine, program, 0).ok

HasContainer(program, name) ==
    \E i \in DOMAIN program.boundaries : program.boundaries[i].name = name

InvertReturned == ret.op = "invert" /\ ret.kind = "return"

\* C1: invert of an admissible program on a container it has either returns
\* a new admissible program with success = true, or returns the caller's
\* program, unchanged, with success = false; it never raises
C1_InversionRoundTrip ==
    (ret.op = "invert" /\ Admissible(ret.before)
        /\ HasContainer(ret.before, ret.boundary_name))
    => /\ ret.kind = "return"
       /\ \/ ret.success /\ ret.result \in Live /\ Admissible(heap[ret.result])
          \/ /\ ~ ret.success
             /\ ret.result = ret.program
             /\ heap[ret.program] = ret.before

\* a rolled-back inversion of an admissible program, after one that succeeded
C1_Witness ==
    /\ ret.op = "invert" /\ Admissible(ret.before)
    /\ HasContainer(ret.before, ret.boundary_name)
    /\ ~ ret.success
    /\ Len(inversion_log) >= 1

\* C2: after invert(P, C), whatever its outcome, the caller's P has the
\* containers, state-spaces and choice-points it had before the call
C2_CallerProgramUntouched ==
    ret.op = "invert" => heap[ret.program] = ret.before

\* the post-transform validation rejected the copy, which had been changed
C2_Witness ==
    /\ InvertReturned /\ ~ ret.success
    /\ ret.reason[1] = "Inversion produced inadmissible structure: "
    /\ ret.before.boundaries # <<>>

\* C3: a successful invert(P, C) yields the role inversion of P: no
\* container named C, a container m with member list [C] for every member m
\* of the removed container, no other new container, and every other
\* container, every state-space and every choice-point of P as it was
C3_RoleInversion ==
    (InvertReturned /\ ret.success) =>
        LET P == ret.before
            R == heap[ret.result]
            C == ret.boundary_name
            removed == P.boundaries[FirstNamed(P.boundaries, C)]
            others == {b \in Range(P.boundaries) : b.name # C}
            created == {[name |-> m, content |-> <<C>>] : m \in Range(removed.content)}
        IN  /\ ~ HasContainer(R, C)
            /\ \A b \in created : b \in Range(R.boundaries)
            /\ \A b \in others : b \in Range(R.boundaries)
            /\ Range(R.boundaries) = others \cup created
            /\ R.domains = P.domains
            /\ R.qubits = P.qubits

\* a successful inversion of a container with two different members
C3_Witness ==
    /\ InvertReturned /\ ret.success
    /\ LET P == ret.before
       IN  Cardinality(Range(P.boundaries[FirstNamed(P.boundaries, ret.boundary_name)].content)) = 2

\* C4: an inadmissible program fails with the validator's reason wrapped,
\* whether or not the target exists; "not found" is the failure of an
\* admissible program that has no container of that name, and of no other
\* call; both return the caller's program and raise nothing
C4_PreconditionOrder ==
    ret.op = "invert" =>
        /\ ~ Admissible(ret.before) =>
              /\ ret.kind = "return" /\ ~ ret.success /\ ret.result = ret.program
              /\ ret.reason = <<"Cannot invert inadmissible structure: ">>
                                  \o Checks(ret.before).reason
        /\ (Admissible(ret.before) /\ ~ HasContainer(ret.before, ret.boundary_name)) =>
              /\ ret.kind = "return" /\ ~ ret.success /\ ret.result = ret.program
              /\ ret.reason = <<"Boundary '", ret.boundary_name, "' not found">>
        /\ (ret.kind = "return" /\ ret.reason[Len(ret.reason)] = "' not found") =>
              (Admissible(ret.before) /\ ~ HasContainer(ret.before, ret.boundary_name))

\* an inadmissible program and a target it does not have
C4_Witness ==
    /\ ret.op = "invert"
    /\ ~ Admissible(ret.before)
    /\ ~ HasContainer(ret.before, ret.boundary_name)

\* C5: the verdict an engine returns, whatever it has served before and
\* whatever its ledger holds, is the verdict of a new engine on that program
C5_VerdictIgnoresHistory ==
    ret.op = "check_structure" =>
        ret.ok = check_structure(AdmissibilityEngine, ret.before, ret.program).ok

\* an inadmissible program checked by an engine that has served an inversion
\* and has entries in its ledger
C5_Witness ==
    /\ ret.op = "check_structure"
    /\ ~ ret.ok
    /\ Len(ret.engine_before.accumulation) >= 2
    /\ Len(inversion_log) >= 1

\* the reorderings of a container list
Orderings(n) == {f \in [1..n -> 1..n] : \A i, j \in 1..n : f[i] = f[j] => i = j}

Reordered(program, f) ==
    [program EXCEPT !.boundaries = [i \in DOMAIN program.boundaries |-> program.boundaries[f[i]]]]

\* C6: the verdict on a program is the verdict on every reordering of its
\* container list
C6_OrderInvariance ==
    ret.op = "check_structure" =>
        \A f \in Orderings(Len(ret.before.boundaries)) :
            Checks(Reordered(ret.before, f)).ok = ret.ok

\* two containers of the program list each other
MutuallyListed(program) ==
    \E i, j \in DOMAIN program.boundaries :
        /\ program.boundaries[j].name \in Range(program.boundaries[i].content)
        /\ program.boundaries[i].name \in Range(program.boundaries[j].content)
        /\ program.boundaries[i].name # program.boundaries[j].name

\* C7: a program in which two containers list each other is never judged
\* admissible (the verdict half of the claim; the reason is that of the
\* first check that fails)
C7_MutualListingRejected ==
    (ret.op = "check_structure" /\ MutuallyListed(ret.before)) => ~ ret.ok

\* the four cross-entity invariants of the data model, over all containers
DistinctNames(program) ==
    \A i, j \in DOMAIN program.boundaries :
        program.boundaries[i].name = program.boundaries[j].name => i = j

NoSelfListing(program) ==
    \A b \in Range(program.boundaries) : b.name \notin Range(b.content)

NoMutualListing(program) ==
    \A a, b \in Range(program.boundaries) :
        ~ (a.name # b.name /\ b.name \in Range(a.content) /\ a.name \in Range(b.content))

Referenceable(program) ==
    {l \in UNION {{q.state_a, q.state_b} : q \in Range(program.qubits)} :
        \E d \in Range(program.domains) : \E st \in Range(d.states) : l \in Range(st)}

LabelsResolve(program) ==
    \A q \in Range(program.qubits) :
        q.state_a \in Referenceable(program) /\ q.state_b \in Referenceable(program)

AllContained(program) ==
    \A n \in {d.name : d \in Range(program.domains)} \cup {q.name : q \in Range(program.qubits)} :
        \E b \in Range(program.boundaries) : n \in Range(b.content)

SelfListingDeclAt(tokens, i) ==
    \E n \in ParseNames, c \in DeclContents :
        /\ n \in Range(c)
        /\ i + Len(BoundaryDecl(n, c)) <= Len(tokens)
        /\ SubSeq(tokens, i + 1, i + Len(BoundaryDecl(n, c))) = BoundaryDecl(n, c)

HasSelfListingDecl(tokens) == \E i \in 0..Len(tokens) : SelfListingDeclAt(tokens, i)

\* the tokens before position i + 1 are whole declarations
WholeDeclsBefore(tokens, i) ==
    \E ds \in UNION {[1..k -> Decls] : k \in 0..MaxDecls} :
        Flatten(ds) = SubSeq(tokens, 1, i)

\* C9: a container declaration that lists its own name makes parse raise, so
\* that no program is returned and nothing reaches the validator; the error
\* is the ValueError of the container's construction whenever the parser gets
\* to the declaration, that is, when the tokens before it are whole
\* declarations
C9_SelfListingNeverParses ==
    (ret.op = "parse" /\ HasSelfListingDecl(ret.tokens)) =>
        /\ ret.kind = "raise" /\ ret.exc \in {"ValueError", "SyntaxError"}
        /\ Live = {}
        /\ admissibility = AdmissibilityEngine
        /\ (\E i \in 0..Len(ret.tokens) :
               SelfListingDeclAt(ret.tokens, i) /\ WholeDeclsBefore(ret.tokens, i))
           => ret.exc = "ValueError"

\* a whole declaration, then a container that lists itself after another member
C9_Witness ==
    /\ ret.op = "parse" /\ ret.kind = "raise" /\ ret.exc = "ValueError"
    /\ \E i \in 1..Len(ret.tokens) :
           /\ SelfListingDeclAt(ret.tokens, i)
           /\ WholeDeclsBefore(ret.tokens, i)
           /\ ret.tokens[i + 5] = Tok("COMMA", ",")

\* C10: a call of invert that returns success = true appends one entry
\* (target, before, after, atomic) to the log, any other call leaves the log
\* as it was, and the count is the number of successful calls
C10_LogAppendOnly ==
    /\ get_inversion_count(inversion_log) = successes
    /\ ret.op = "invert" =>
          IF ret.kind = "return" /\ ret.success
          THEN /\ Len(inversion_log) = Len(ret.log_before) + 1
               /\ SubSeq(inversion_log, 1, Len(ret.log_before)) = ret.log_before
               /\ LET e == inversion_log[Len(inversion_log)]
                  IN  /\ e.boundary = ret.boundary_name
                      /\ e.before = ret.program
                      /\ e.after = ret.result
                      /\ e.atomic = TRUE
          ELSE inversion_log = ret.log_before
    /\ ret.op \in {"check_structure", "parse"} =>
          get_inversion_history(inversion_log) = ret.log_before

\* a second successful inversion, the first one's entry still in the log
C10_Witness ==
    /\ InvertReturned /\ ret.success
    /\ Len(inversion_log) = 2
    /\ inversion_log[1].after = ret.program

\* C11: check_structure appends one entry (type, the program, result,
\* timestamp) to the ledger when it returns true and none when it returns
\* false; after every operation the ledger it found is a prefix of the ledger
\* it leaves, so no entry is removed or rewritten
C11_LedgerAppendOnly ==
    ret.op \in {"parse", "check_structure", "invert"} =>
        LET old == ret.engine_before.accumulation
            new == admissibility.accumulation
        IN  /\ Len(old) <= Len(new)
            /\ SubSeq(new, 1, Len(old)) = old
            /\ ret.op = "parse" => new = old
            /\ ret.op = "check_structure" =>
                  IF ret.ok
                  THEN new = Append(old, [type |-> "admissibility_check",
                                          program |-> ret.program,
                                          result |-> "admissible",
                                          timestamp |-> "no-time-reference"])
                  ELSE new = old

\* a check that returns true on an engine whose ledger already has an entry
\* of another program
C11_Witness ==
    /\ ret.op = "check_structure" /\ ret.ok
    /\ Len(ret.engine_before.accumulation) >= 1
    /\ ret.engine_before.accumulation[1].program # ret.program

\* C12: whatever a caller does with a list it got from get_accumulation or
\* get_inversion_history, or with a program it passed in or received back,
\* the ledger and the inversion log report afterwards what they reported
\* before
C12_HistoryReadOnly ==
    ret.op = "caller" =>
        Reported(admissibility, inversion_log, heap) = ret.reported_before

\* the atom at i stands after a // of its own line
InComment(text, i) ==
    \E j \in 1..(i - 2) :
        /\ text[j] = "/" /\ text[j + 1] = "/"
        /\ \A k \in j..i : text[k] # "\n"

\* a denylisted word stands at i as a whole word: a word that is no part of
\* a longer word, or the element-of sign
DenylistedAt(text, i) ==
    /\ text[i] \in FORBIDDEN_TOKENS
    /\ text[i] \in WordAtoms => (~ IsWordAt(text, i - 1) /\ ~ IsWordAt(text, i + 1))

\* C13: a denylisted word that stands as a whole word outside a comment makes
\* tokenize raise a SyntaxError that names a denylisted word and return no
\* tokens; a source whose denylisted words all stand in comments is not
\* rejected by the denylist gate
C13_DenylistGate ==
    ret.op = "tokenize" =>
        IF \E i \in DOMAIN ret.code : DenylistedAt(ret.code, i) /\ ~ InComment(ret.code, i)
        THEN /\ ret.kind = "raise" /\ ret.exc = "SyntaxError"
             /\ ret.named \in FORBIDDEN_TOKENS
             /\ ret.tokens = <<>>
        ELSE ret.msg # "FORBIDDEN SYNTAX"

\* the same for the denylisted words that are made of word characters
C13_WordsRejected ==
    ret.op = "tokenize" =>
        IF \E i \in DOMAIN ret.code :
               DenylistedAt(ret.code, i) /\ ~ InComment(ret.code, i) /\ ret.code[i] \in WordAtoms
        THEN /\ ret.kind = "raise" /\ ret.exc = "SyntaxError"
             /\ ret.named \in FORBIDDEN_TOKENS
             /\ ret.tokens = <<>>
        ELSE ret.msg = "FORBIDDEN SYNTAX" => \E i \in DOMAIN ret.code : ret.code[i] = "(in)"

\* the text with whitespace w put in before the atom at i (at the end: i = Len + 1)
InsertAt(text, i, w) == SubSeq(text, 1, i - 1) \o <<w>> \o SubSeq(text, i, Len(text))

\* the places of a text between two tokens, before the first and after the
\* last: where a match of the lexer starts, and the end of the text
TokenGaps(text) == {l.at : l \in Range(Lexemes(text, 1))} \cup {Len(text) + 1}

\* the whitespace between tokens: the atoms of the WHITESPACE matches
GapWhitespace(text) ==
    {i \in DOMAIN text :
        \E l \in Range(Lexemes(text, 1)) :
            /\ l.type = "WHITESPACE" /\ l.at <= i
            /\ \A k \in l.at..i : text[k] \in Whitespace}

\* the line break that ends a comment
EndsComment(text, i) ==
    /\ text[i] = "\n"
    /\ \E l \in Range(Lexemes(text, 1)) :
           l.type = "COMMENT" /\ l.at < i /\ RunUntil(text, l.at, "\n") = i

\* the texts that differ from this one in the amount or the kind of the
\* whitespace at one place between tokens
Relayouts(text) ==
    {InsertAt(text, i, w) : i \in TokenGaps(text), w \in Whitespace}
    \cup {[text EXCEPT ![i] = w] : i \in GapWhitespace(text), w \in Whitespace}

\* the same, a line break that ends a comment staying what it is
RelayoutsKeepingComments(text) ==
    {InsertAt(text, i, w) : i \in TokenGaps(text), w \in Whitespace}
    \cup {[text EXCEPT ![i[1]] = i[2]] :
             i \in {x \in GapWhitespace(text) \X Whitespace : ~ EndsComment(text, x[1])}}

Lexed == ret.op = "tokenize" /\ ret.kind = "return"
            /\ _normalize_quantum_notation(ret.code) = ret.code

\* C14 as stated: a source that differs from a tokenized one only in the
\* amount or kind of whitespace and line breaks between tokens has the same
\* token sequence, and so the same program
C14_WhitespaceInvariance ==
    Lexed => \A other \in Relayouts(ret.code) :
                 /\ tokenize(other).raise = ""
                 /\ tokenize(other).tokens = ret.tokens
                 /\ parse(tokenize(other).tokens) = parse(ret.tokens)

\* C14 amended: the same, provided a line break that ends a // comment stays a
\* line break
C14_WhitespaceInvarianceOutsideComments ==
    Lexed => \A other \in RelayoutsKeepingComments(ret.code) :
                 /\ tokenize(other).raise = ""
                 /\ tokenize(other).tokens = ret.tokens
                 /\ parse(tokenize(other).tokens) = parse(ret.tokens)

\* a tokenized source with a comment, a line break that ends it, whitespace
\* between two tokens and two tokens with nothing between them
C14_Witness ==
    /\ Lexed
    /\ Len(ret.tokens) >= 3
    /\ \E i \in DOMAIN ret.code : EndsComment(ret.code, i)
    /\ \E i \in GapWhitespace(ret.code) : ret.code[i] = " "
    /\ \E i \in TokenGaps(ret.code) :
           i > 1 /\ i <= Len(ret.code)
           /\ ret.code[i] \notin Whitespace /\ ret.code[i - 1] \notin Whitespace

HasPrefix(tokens, prefix) ==
    Len(prefix) <= Len(tokens) /\ SubSeq(tokens, 1, Len(prefix)) = prefix

\* the place of the first token of the given type, Len + 1 if there is none
FirstOfType(tokens, type) ==
    LET hits == {i \in DOMAIN tokens : tokens[i][1] = type}
    IN  IF hits = {} THEN Len(tokens) + 1 ELSE CHOOSE i \in hits : \A j \in hits : i <= j

\* the first declaration of the token sequence has malformed brace or comma
\* structure: no opening brace where the declaration has it, no closing
\* brace, or a list between the braces with two members and no comma between
\* them, two commas in a row, a comma first or a comma last
MalformedFirstDecl(tokens) ==
    /\ Len(tokens) >= 2
    /\ tokens[1][1] \in {"BOUNDARY", "DOMAIN", "QUBIT"}
    /\ tokens[2][1] = "IDENTIFIER"
    /\ LET open == IF tokens[1][1] = "QUBIT" THEN 4 ELSE 3
           close == FirstOfType(tokens, "RBRACE")
       IN  /\ tokens[1][1] = "QUBIT" => (Len(tokens) >= 3 /\ tokens[3][1] = "EQUALS")
           /\ \/ Len(tokens) < open
              \/ tokens[open][1] # "LBRACE"
              \/ close > Len(tokens)
              \/ \E i \in (open + 1)..(close - 2) :
                     \/ tokens[i][1] = "IDENTIFIER" /\ tokens[i + 1][1] = "IDENTIFIER"
                     \/ tokens[i][1] = "COMMA" /\ tokens[i + 1][1] = "COMMA"
              \/ close > open + 1 /\ tokens[open + 1][1] = "COMMA"
              \/ close > open + 1 /\ tokens[close - 1][1] = "COMMA"

\* C15: malformed brace or comma structure in a declaration makes parse fail
\* with a SyntaxError
C15_MalformedStructureRejected ==
    (ret.op = "parse" /\ MalformedFirstDecl(ret.tokens)) =>
        ret.kind = "raise" /\ ret.exc = "SyntaxError"

\* the same for the braces alone: a missing opening or closing brace
C15_MissingBraceRejected ==
    (ret.op = "parse" /\ Len(ret.tokens) >= 2
        /\ ret.tokens[1][1] \in {"BOUNDARY", "DOMAIN"} /\ ret.tokens[2][1] = "IDENTIFIER"
        /\ \/ Len(ret.tokens) < 3
           \/ ret.tokens[3][1] # "LBRACE"
           \/ FirstOfType(ret.tokens, "RBRACE") > Len(ret.tokens)) =>
        ret.kind = "raise" /\ ret.exc = "SyntaxError"

\* C16: a state-space or choice-point declaration whose labels are
\* quantum-notation literals parses, the literals becoming its labels
C16_QuantumLiteralsAreLabels ==
    (ret.op = "parse" /\ ret.tokens \in QuantumDecls) =>
        /\ ret.kind = "return"
        /\ LET program == heap[ret.result]
           IN  \/ /\ Len(program.domains) = 1
                  /\ program.domains[1].states = <<<<"|0>>">>>>
               \/ /\ Len(program.qubits) = 1
                  /\ program.qubits[1].state_a = "|0>>"
                  /\ program.qubits[1].state_b = "|1>>"

QubitsContained(program) ==
    \A q \in Range(program.qubits) :
        \E b \in Range(program.boundaries) : q.name \in Range(b.content)

\* C17: a program whose choice-point labels all occur in a state-space's
\* label set, whose choice-point names are all listed by a container and
\* in which no container lists itself or is listed mutually, is judged
\* admissible; so is the program of test_qubit_domain_validation
C17_ResolvedProgramAdmissible ==
    ret.op = "check_structure" =>
        /\ (/\ LabelsResolve(ret.before)
            /\ QubitsContained(ret.before)
            /\ NoSelfListing(ret.before)
            /\ NoMutualListing(ret.before)) => ret.ok
        /\ ret.before = QubitDomainTestProgram => ret.ok

\* the check that gave the reason: 1 self-containment, 2 direct 2-cycle,
\* 3 label resolution, 4 containment completeness, 0 none (admissible)
CheckOfReason(reason) ==
    CASE reason[1] = "Boundary '" -> 1
      [] reason = <<"Circular containment detected">> -> 2
      [] reason[1] = "Qubit state '" -> 3
      [] reason[1] \in {"Domain '", "Qubit '"} -> 4
      [] OTHER -> 0

\* the first of the four invariants, in the order of the checks, that the
\* program violates; 0 if it violates none
EarliestViolated(program) ==
    IF ~ NoSelfListing(program) THEN 1
    ELSE IF ~ NoMutualListing(program) THEN 2
    ELSE IF ~ LabelsResolve(program) THEN 3
    ELSE IF ~ AllContained(program) THEN 4
    ELSE 0

\* C20: the reason check_structure returns is that of the earliest violated
\* check in the order self-containment, direct 2-cycle, label resolution,
\* containment completeness
C20_EarliestViolationReported ==
    ret.op = "check_structure" =>
        CheckOfReason(ret.reason) = EarliestViolated(ret.before)

\* the same on the programs whose container names are pairwise distinct
C20_PrecedenceDistinctNames ==
    (ret.op = "check_structure" /\ DistinctNames(ret.before)) =>
        CheckOfReason(ret.reason) = EarliestViolated(ret.before)

\* ---- C18
\* C18: the daemon serializes the calls into its engines: whatever the
\* interleaving of start, stop and submit_request, no two worker threads are
\* inside _process_request (lexer, parser, admissibility engine, inversion
\* engine) at the same time.
C18_CallsSerialized ==
    Cardinality({w \in WorkerIds : workers[w].pc = "inside"}) <= 1

\* at most one worker thread is in its loop at any time
C18_OneWorkerThread ==
    Cardinality({w \in WorkerIds : Alive(w)}) <= 1

\* ---- C19
\* the worker's side of C19: a request whose source text fails in tokenize or
\* parse never enters check_structure or invert, leaves ledger, log and the
\* programs they hold as they were, and its response is an 'error' response
C19_FailureScopedInWorker ==
    (ret.op = "process" /\ SourceFails(ret.request)) =>
        /\ ret.called \subseteq {"tokenize", "parse"}
        /\ admissibility = ret.engine_before
        /\ inversion_log = ret.log_before
        /\ heap = ret.heap_before
        /\ ret.response.type = "error"

\* with one calling thread, the caller of a failing request receives an
\* 'error' response
C19_SingleCallerReceivesError ==
    (callers["c2"].calls = 0 /\ ret.op = "submit_request" /\ SourceFails(ret.request)) =>
        ret.response.type = "error"

\* C19: when tokenize or parse fails for a request, check_structure and invert
\* are not invoked for it, ledger and log are unchanged, and the caller that
\* submitted it receives an 'error' response from submit_request.
C19_FailureScopedToRequest ==
    /\ C19_FailureScopedInWorker
    /\ (ret.op = "submit_request" /\ SourceFails(ret.request)) =>
           ret.response.type = "error"


\* ---- C21
\* the containers at the indices ring[1], ..., ring[k] list each other in a ring
IsRing(program, ring) ==
    /\ \A i, j \in DOMAIN ring : ring[i] = ring[j] => i = j
    /\ \A i \in DOMAIN ring :
           program.boundaries[ring[(i % Len(ring)) + 1]].name
               \in Range(program.boundaries[ring[i]].content)

\* some three or more containers of the program form a ring
HasLongCycle(program) ==
    \E k \in 3..Len(program.boundaries) :
        \E ring \in [1..k -> DOMAIN program.boundaries] : IsRing(program, ring)

PlainLabels(program) ==
    {st[1] : st \in {x \in UNION {Range(d.states) : d \in Range(program.domains)} : Len(x) = 1}}

CompoundHalves(program) ==
    UNION {{st[1], st[2]} :
           st \in {x \in UNION {Range(d.states) : d \in Range(program.domains)} : Len(x) = 2}}

\* the choice-point labels that are neither
UnresolvedLabels(program) ==
    UNION {{q.state_a, q.state_b} : q \in Range(program.qubits)}
        \ (PlainLabels(program) \cup CompoundHalves(program))

\* check_structure got as far as label resolution
ReachedCheck3 == ret.op = "check_structure" /\ CheckOfReason(ret.reason) \notin {1, 2}

\* C22: a program that gets to check 3 passes it exactly when every
\* choice-point label is a plain label of some state-space or a half of some
\* compound label; otherwise the verdict is false and the reason names a
\* label that is neither.
C22_LabelResolution ==
    ReachedCheck3 =>
        /\ CheckOfReason(ret.reason) # 3 <=> UnresolvedLabels(ret.before) = {}
        /\ CheckOfReason(ret.reason) = 3 =>
               /\ ~ ret.ok
               /\ \E l \in UnresolvedLabels(ret.before) :
                      ret.reason = <<"Qubit state '", l, "' not in any domain">>

\* a program admitted whose choice-point resolves its first label as a half
\* of a compound label only
C22_Witness ==
    /\ ReachedCheck3
    /\ ret.ok
    /\ ret.before.qubits # <<>>
    /\ \E q \in Range(ret.before.qubits) :
           q.state_a \in CompoundHalves(ret.before) \ PlainLabels(ret.before)

\* ---- C23
\* the first label, in the order of the choice-points and of their two sides,
\* that is unresolved, with the choice-point that owns it
FirstUnresolved(program) ==
    LET bad == {i \in DOMAIN program.qubits :
                    {program.qubits[i].state_a, program.qubits[i].state_b}
                        \cap UnresolvedLabels(program) # {}}
        q == program.qubits[CHOOSE i \in bad : \A j \in bad : i <= j]
    IN  [label |-> IF q.state_a \in UnresolvedLabels(program) THEN q.state_a ELSE q.state_b,
         owner |-> q.name]

\* C23: when label resolution fails, the reason names the first unresolved
\* label and the choice-point that owns it.
C23_ReasonNamesLabelAndOwner ==
    (ret.op = "check_structure" /\ CheckOfReason(ret.reason) = 3) =>
        /\ FirstUnresolved(ret.before).label \in Range(ret.reason)
        /\ FirstUnresolved(ret.before).owner \in Range(ret.reason)

\* the reason names the first unresolved label
C23_ReasonNamesFirstLabel ==
    (ret.op = "check_structure" /\ CheckOfReason(ret.reason) = 3) =>
        ret.reason = <<"Qubit state '", FirstUnresolved(ret.before).label,
                       "' not in any domain">>


\* ---- C24
\* the state-spaces and choice-points whose name is a member of no container
Uncontained(program) ==
    LET members == UNION {Range(b.content) : b \in Range(program.boundaries)}
    IN  {<<"Domain '", d.name>> : d \in {x \in Range(program.domains) : x.name \notin members}}
        \cup
        {<<"Qubit '", q.name>> : q \in {x \in Range(program.qubits) : x.name \notin members}}

\* the entities a reason lists, and the number of its separators
ListedIn(reason) ==
    {<<reason[i], reason[i + 1]>> :
        i \in {j \in 1..(Len(reason) - 1) : reason[j] \in {"Domain '", "Qubit '"}}}

Separators(reason) == Cardinality({i \in DOMAIN reason : reason[i] = "; "})

Iteration(tokens, pos) ==
    LET token_type == current_token(tokens, pos)[1]
    IN  IF token_type = "BOUNDARY" THEN parse_boundary(tokens, pos)
        ELSE IF token_type = "DOMAIN" THEN parse_domain(tokens, pos)
        ELSE IF token_type = "QUBIT" THEN parse_qubit(tokens, pos)
        ELSE [raise |-> "", pos |-> pos + 1]

\* wherever in the token sequence an iteration of the dispatch loop or of a
\* member loop begins, it fails or leaves the position further on
ForwardPass(tokens) ==
    /\ \A pos \in 0..(Len(tokens) - 1) :
           \E r \in {Iteration(tokens, pos)} : r.raise # "" \/ r.pos > pos
    /\ \A pos \in 0..Len(tokens) :
           /\ \E c \in {BoundaryContent(tokens, pos, <<>>)} : c.raise # "" \/ c.pos >= pos
           /\ \E c \in {DomainStatesLoop(tokens, pos, <<>>)} : c.raise # "" \/ c.pos >= pos

\* C25: on every token sequence, the empty one and those cut short in a
\* declaration included, parse moves forward only, every iteration consumes a
\* token or fails, and parse ends with a Program (all tokens consumed) or
\* with a SyntaxError or ValueError.
C25_ParseIsOneForwardPass ==
    /\ input.pending => ForwardPass(input.tokens)
    /\ ret.op = "parse" =>
           /\ ForwardPass(ret.tokens)
           /\ \/ /\ ret.kind = "return"
                 /\ ret.result \in Live
                 /\ parse(ret.tokens).pos = Len(ret.tokens)
              \/ /\ ret.kind = "raise"
                 /\ ret.exc \in {"SyntaxError", "ValueError"}
                 /\ Live = {}

\* a sequence that ends in the middle of a choice-point declaration, after a
\* whole declaration: parse has raised
C25_Witness ==
    /\ ret.op = "parse" /\ ret.kind = "raise"
    /\ \E i \in 1..Len(ret.tokens) :
           /\ ret.tokens[i][1] = "QUBIT"
           /\ i > 1
           /\ Len(ret.tokens) < i + 7

\* the empty token sequence parses to the empty program
C25_EmptySequence ==
    (ret.op = "parse" /\ ret.tokens = <<>>) =>
        ret.kind = "return" /\ heap[ret.result] = QGLProgram(<<>>, <<>>, <<>>)


\* ---- C26
EntityNames(program) ==
    {d.name : d \in Range(program.domains)} \cup {q.name : q \in Range(program.qubits)}

\* the members of the containers named name, and of the containers not named so
MembersOf(program, name) ==
    UNION {Range(b.content) : b \in {x \in Range(program.boundaries) : x.name = name}}

MembersElsewhere(program, name) ==
    UNION {Range(b.content) : b \in {x \in Range(program.boundaries) : x.name # name}}

\* some state-space or choice-point is held by the container C only
HeldOnlyBy(program, name) ==
    EntityNames(program) \cap (MembersOf(program, name) \ MembersElsewhere(program, name))

C27_NamesStayDistinct ==
    (InvertReturned /\ ret.success /\ DistinctNames(ret.before)) =>
        DistinctNames(heap[ret.result])

\* the members of the inverted container are pairwise different and none of
\* them is the name of a container of the program
MembersAreNewNames(program, name) ==
    LET c == program.boundaries[FirstNamed(program.boundaries, name)].content
    IN  /\ \A i, j \in DOMAIN c : c[i] = c[j] => i = j
        /\ \A i \in DOMAIN c : ~ HasContainer(program, c[i])

\* the names stay distinct exactly when the members are new names
C27_DistinctWhenMembersAreNew ==
    (InvertReturned /\ ret.success /\ DistinctNames(ret.before)) =>
        (DistinctNames(heap[ret.result])
            <=> MembersAreNewNames(ret.before, ret.boundary_name))


\* ---- C28
\* the call is the inversion of the former single member b of a container A,
\* on the program the inversion of A (log entry en) returned
UndoesEntry(en) ==
    LET P == heap[en.before]
    IN  /\ ret.op = "invert"
        /\ ret.program = en.after
        /\ Cardinality({i \in DOMAIN P.boundaries : P.boundaries[i].name = en.boundary}) = 1
        /\ P.boundaries[FirstNamed(P.boundaries, en.boundary)].content = <<ret.boundary_name>>
        /\ ~ HasContainer(P, ret.boundary_name)

\* C28: if A is the only container of an admissible P named A, lists exactly
\* [b], no container of P is named b and invert(P, A) succeeds with P', then
\* invert(P', b) succeeds and returns a program with the containers, the
\* state-spaces and the choice-points of P.
C28_SingleMemberInversionUndone ==
    ret.op = "invert" =>
    \A k \in DOMAIN ret.log_before :
        UndoesEntry(ret.log_before[k]) =>
            /\ ret.kind = "return"
            /\ ret.success
            /\ LET P == heap[ret.log_before[k].before]
                   R == heap[ret.result]
               IN  /\ Range(R.boundaries) = Range(P.boundaries)
                   /\ Len(R.boundaries) = Len(P.boundaries)
                   /\ R.domains = P.domains
                   /\ R.qubits = P.qubits

\* the undoing inversion in a program of two containers
C28_Witness ==
    /\ ret.op = "invert" /\ ret.kind = "return" /\ ret.success
    /\ \E k \in DOMAIN ret.log_before :
           /\ UndoesEntry(ret.log_before[k])
           /\ Len(heap[ret.log_before[k].before].boundaries) = 2


\* ---- C29
\* C29: with two threads calling submit_request at the same time, each call
\* returns the response computed for the request it put, never the response
\* to the other thread's request.
C29_ResponseToOwnRequest ==
    ret.op = "submit_request" => ret.for = ret.caller

\* the same restricted to a daemon with one worker thread: it fails as well,
\* the routing does not depend on a second worker
C29_OwnResponseWithOneWorker ==
    (ret.op = "submit_request" /\ Cardinality({w \in WorkerIds : workers[w].pc # "unborn"}) = 1)
        => ret.for = ret.caller

\* with one calling thread every call returns the response to its own request
C29_OwnResponseWithOneCaller ==
    (ret.op = "submit_request" /\ \E c \in Callers : callers[c].calls = 0)
        => ret.for = ret.caller


\* ---- C30
\* the model's heap and ledger always have room for a request taken: no
\* worker waits inside _process_request
ProcessNeverBlocked ==
    \A w \in WorkerIds :
        workers[w].pc = "inside" =>
            /\ Cardinality(Free) >= Needs(workers[w].request)
            /\ Len(admissibility.accumulation) + Needs(workers[w].request) <= MaxLedger

\* thread c is blocked in submit_request, which it called on a started daemon
AwaitsStarted(c) == callers[c].pc = "await" /\ callers[c].to_started

\* the worker answers every request it takes with one response
C30_TakenRequestAnswered ==
    ret.op = "process" => workers[ret.worker].pc = "put"

\* the daemon can take a step by itself, without a further call of its
\* callers: a worker thread is in its loop, a blocked get has a response to
\* return, a start under way can create its thread, a join can return
CanStepByItself ==
    \/ \E w \in WorkerIds : Alive(w)
    \/ \E c \in Callers :
           \/ callers[c].pc = "await" /\ response_queue # <<>>
           \/ callers[c].pc = "start_set" /\ \E w \in WorkerIds : workers[w].pc = "unborn"
           \/ callers[c].pc = "join"

\* no thread is left blocked in submit_request on a daemon that takes no
\* further step by itself
C30_NoCallerStranded ==
    \A c \in Callers : AwaitsStarted(c) => CanStepByItself

\* C30: every request submitted to a started daemon is answered, whatever the
\* request and whatever calls of stop follow: the worker puts one response
\* for every request it takes, and submit_request is never left blocked with
\* nothing in the daemon moving any more.
C30_EveryRequestAnswered ==
    /\ C30_TakenRequestAnswered
    /\ C30_NoCallerStranded

\* as long as no thread calls stop and every request is a dict, no call of
\* submit_request on a started daemon is left blocked
C30_AnsweredWithoutStop ==
    (/\ is_running
     /\ \A w \in WorkerIds : workers[w].pc # "dead"
     /\ \A c \in Callers : ~ Malformed(callers[c].request))
    => C30_NoCallerStranded


====
